---- MODULE Spec2Model ----
(***************************************************************************)
(* A model of the EmCPU x86-64 emulator core (public/emcpu.umd.js): the    *)
(* CPU object, its Memory, the interrupt queue and CPU.step().             *)
(*                                                                         *)
(* Representation.  JavaScript BigInt values are modelled as TLA+ integers;*)
(* every value the model reaches is below 2^31 in magnitude (TLC stops on  *)
(* overflow, so this is checked, not assumed).  Control registers whose    *)
(* interesting bits lie above bit 30 (CR0.PG is bit 31) are modelled as    *)
(* the set of their set bit positions.  Memory is the set of its non-zero  *)
(* bytes (Memory's constructor fills the buffer with 0).  A 64-bit word    *)
(* read from memory is the tuple of its 8 little-endian bytes.             *)
(*                                                                         *)
(* A JavaScript exception is the field exc of the machine record that the  *)
(* operators thread through: once exc is set, later operations of the same *)
(* call chain are skipped, exactly as a throw skips them.                  *)
(***************************************************************************)
EXTENDS Integers, Sequences, FiniteSets, TLC

VARIABLES
    rip,                  \* this.rip
    regs,                 \* this.rax .. this.r15, by 64-bit register name
    flags,                \* this.flags: cf, zf, sf, of, if (0 or 1)
    halted,               \* this.halted
    mode,                 \* this.mode
    cr0, cr3, cr4, efer,  \* control registers, as sets of set bits
    idtr,                 \* this.idtr: base, limit
    operandSizeOverride,  \* this.operandSizeOverride
    addressSizeOverride,  \* this.addressSizeOverride
    mem,                  \* this.memory: the non-zero bytes of the buffer
    interruptQueue,       \* this.interruptQueue; each entry carries its raise number
    result,               \* what the last call of step() gave the host
    raised,               \* history: number of raiseInterrupt calls so far
    delivered,            \* history: raise numbers of the queued vectors delivered, in order
    host,                 \* the host script: stepsPerChunk, timer callbacks so far, run() has returned
    last                  \* history: what the last host call did

vars == <<rip, regs, flags, halted, mode, cr0, cr3, cr4, efer, idtr,
          operandSizeOverride, addressSizeOverride, mem, interruptQueue,
          result, raised, delivered, host, last>>

(***************************************************************************)
(* Bounds of the model                                                     *)
(***************************************************************************)
MaxRaises == 2
MaxTunes == 1

(***************************************************************************)
(* Program constants                                                       *)
(***************************************************************************)
MemSize == 1048576
PAGE_SIZE == 4096
CR0_PE == 0
CR0_PG == 31
CR4_PAE == 5
EFER_LME == 8
FLAG_CF_BIT == 0
FLAG_ZF_BIT == 6
FLAG_SF_BIT == 7
FLAG_IF_BIT == 9
FLAG_OF_BIT == 11
PTE_PRESENT == 1
PTE_READ_WRITE == 2
PTE_USER_SUPER == 4
PTE_PAGE_SIZE == 128

RegNames64 == <<"rax", "rcx", "rdx", "rbx", "rsp", "rbp", "rsi", "rdi",
                "r8", "r9", "r10", "r11", "r12", "r13", "r14", "r15">>

Range(f) == {f[i] : i \in DOMAIN f}

(***************************************************************************)
(* Bit and byte arithmetic on BigInt values                                *)
(***************************************************************************)
\* a value outside what the model represents: evaluating it stops TLC
OutOfModel == CHOOSE x \in {} : TRUE

\* v >> n for a BigInt v (arithmetic shift), |v| < 2^31
Shr(v, n) == IF n >= 31 THEN (IF v < 0 THEN -1 ELSE 0) ELSE v \div (2 ^ n)

\* bit n of a non-negative value below 2^31
Bit(v, n) == Shr(v, n) % 2

\* byte i (0..7) of the two's-complement 64-bit image of v
ByteOf(v, i) == IF i >= 4 THEN (IF v < 0 THEN 255 ELSE 0)
                ELSE (v \div (256 ^ i)) % 256

\* the BigInt held in 8 little-endian bytes
\* a | b for non-negative a and b
RECURSIVE BitOr(_, _)
BitOr(a, b) ==
    IF a = 0 THEN b ELSE IF b = 0 THEN a
    ELSE ((a % 2) + (b % 2) - ((a % 2) * (b % 2))) + 2 * BitOr(a \div 2, b \div 2)

RECURSIVE ValFrom(_, _)
ValFrom(w, i) ==
    IF i > Len(w) THEN 0
    ELSE (IF w[i] = 0 THEN 0 ELSE w[i] * (256 ^ (i - 1))) + ValFrom(w, i + 1)

Val(w) == ValFrom(w, 1)

(***************************************************************************)
(* Memory (class Memory)                                                   *)
(***************************************************************************)
Rd(m, a) == IF a \in DOMAIN m THEN m[a] ELSE 0

\* the buffer after the bytes w are stored at a .. a + Len(w) - 1
WrBytes(m, a, w) ==
    LET n == Len(w)
        new == [x \in {a + j - 1 : j \in {k \in 1..n : w[k] # 0}} |-> w[x - a + 1]]
        keep == [x \in {y \in DOMAIN m : y < a \/ y >= a + n} |-> m[x]]
    IN  new @@ keep

\* DataView range check: an access of n bytes at a
InRange(a, n) == a >= 0 /\ a + n <= MemSize

\* Memory.readBigUint64 / readUint8: the bytes, or a RangeError
MemRead(m, a, n) ==
    IF InRange(a, n)
    THEN [exc |-> "none", bytes |-> [i \in 1..n |-> Rd(m, a + i - 1)]]
    ELSE [exc |-> "RangeError", bytes |-> <<>>]

\* Memory.writeBigUint64: value as 8 little-endian bytes
MemWrite64(m, a, v) == WrBytes(m, a, [i \in 1..8 |-> ByteOf(v, i - 1)])

(***************************************************************************)
(* MMU (CPU.translateVirtualToPhysical and the read/writeVirtual helpers)  *)
(***************************************************************************)
HasBit(reg, b) == b \in reg

\* (entry & mask) !== 0n for a flag mask within the entry's low byte
EntryHas(w, mask) == (w[1] \div mask) % 2 = 1

\* entry & ~0xFFFn, entry & 0xFFFFFFFE00000n, entry & 0xFFFFFFFC0000000n
EntryBase(w, pageBytes) == Val(w) - (Val(w) % pageBytes)

Translated(pa) == [exc |-> "none", code |-> 0, pa |-> pa]
PageFault(c) == [exc |-> "PageFault", code |-> c, pa |-> 0]
RangeErr == [exc |-> "RangeError", code |-> 0, pa |-> 0]

\* the 4 KiB leaf: present check, then the R/W check for writes
TranslateLeaf(s, pte, virtualAddr, accessType) ==
    IF ~EntryHas(pte, PTE_PRESENT) THEN PageFault(0)
    ELSE IF accessType = "write" /\ ~EntryHas(pte, PTE_READ_WRITE) THEN PageFault(1)
    ELSE Translated(EntryBase(pte, 4096) + (virtualAddr % 4096))

\* the walk from the page-table entry that was read (pte)
WalkPT(s, pte, virtualAddr, accessType) ==
    IF pte.exc # "none" THEN RangeErr
    ELSE TranslateLeaf(s, pte.bytes, virtualAddr, accessType)

\* the walk from the page-directory entry that was read (pde)
WalkPD(s, pde, virtualAddr, accessType) ==
    IF pde.exc # "none" THEN RangeErr
    ELSE IF ~EntryHas(pde.bytes, PTE_PRESENT) THEN PageFault(0)
    ELSE IF EntryHas(pde.bytes, PTE_PAGE_SIZE)
    THEN Translated(EntryBase(pde.bytes, 2097152) + (virtualAddr % 2097152))
    ELSE WalkPT(s, MemRead(s.mem, EntryBase(pde.bytes, 4096)
                                  + (Shr(virtualAddr, 12) % 512) * 8, 8),
                virtualAddr, accessType)

\* the walk from the PDPT entry that was read (pdpte); the offset mask of a
\* 1 GiB page is 0x3FFFFFFFF, which keeps every address below 2^31 whole
WalkPDPT(s, pdpte, virtualAddr, accessType) ==
    IF pdpte.exc # "none" THEN RangeErr
    ELSE IF ~EntryHas(pdpte.bytes, PTE_PRESENT) THEN PageFault(0)
    ELSE IF EntryHas(pdpte.bytes, PTE_PAGE_SIZE)
    THEN Translated(BitOr(EntryBase(pdpte.bytes, 1073741824),
                          IF virtualAddr >= 0 THEN virtualAddr ELSE OutOfModel))
    ELSE WalkPD(s, MemRead(s.mem, EntryBase(pdpte.bytes, 4096)
                                  + (Shr(virtualAddr, 21) % 512) * 8, 8),
                virtualAddr, accessType)

\* the walk from the PML4 entry that was read (pml4e)
WalkPML4(s, pml4e, virtualAddr, accessType) ==
    IF pml4e.exc # "none" THEN RangeErr
    ELSE IF ~EntryHas(pml4e.bytes, PTE_PRESENT) THEN PageFault(0)
    ELSE WalkPDPT(s, MemRead(s.mem, EntryBase(pml4e.bytes, 4096)
                                    + (Shr(virtualAddr, 30) % 512) * 8, 8),
                  virtualAddr, accessType)

\* the number whose set bits, among bits 0 .. 30, are the given ones
RECURSIVE NumberFrom(_, _)
NumberFrom(bits, b) ==
    IF b > 30 THEN 0
    ELSE (IF b \in bits THEN 2 ^ b ELSE 0) + NumberFrom(bits, b + 1)

\* this.memory.readBigUint64(Number((this.cr3 & ~0xFFFn) + pml4Index * 8n)):
\* a CR3 of 2^31 or more, or a negative one, is an address outside the buffer
ReadPML4E(s, pml4Index) ==
    IF s.cr3 \subseteq (0..30)
    THEN MemRead(s.mem, NumberFrom(s.cr3 \ (0..11), 0) + pml4Index * 8, 8)
    ELSE [exc |-> "RangeError", bytes |-> <<>>]

translateVirtualToPhysical(s, virtualAddr, sizeBytes, accessType) ==
    IF s.mode = "real" THEN Translated(virtualAddr)
    ELSE IF s.mode # "long" \/ ~HasBit(s.cr0, CR0_PG) \/ ~HasBit(s.cr4, CR4_PAE)
            \/ ~HasBit(s.efer, EFER_LME)
    THEN Translated(virtualAddr)
    ELSE WalkPML4(s, ReadPML4E(s, Shr(virtualAddr, 39) % 512), virtualAddr, accessType)

\* the throw of a failed operation, recorded in the machine record
Throw(s, e, c) == [s EXCEPT !.exc = e, !.code = c]

\* a read that reports an address outside the buffer as a page fault
ReadPhysicalFaulting(s, t, n) ==
    IF t.exc # "none" THEN [exc |-> t.exc, code |-> t.code, bytes |-> <<>>]
    ELSE IF t.pa < 0 \/ t.pa + (n - 1) >= MemSize
    THEN [exc |-> "PageFault", code |-> 0, bytes |-> <<>>]
    ELSE [exc |-> "none", code |-> 0, bytes |-> MemRead(s.mem, t.pa, n).bytes]

\* the bounds check and the Memory read at the translated address t
ReadPhysical(s, t, n) ==
    IF t.exc # "none" THEN [exc |-> t.exc, code |-> t.code, bytes |-> <<>>]
    ELSE IF t.pa < 0 \/ t.pa + (n - 1) >= MemSize
    THEN [exc |-> "MemoryAccessViolation", code |-> 0, bytes |-> <<>>]
    ELSE [exc |-> "none", code |-> 0, bytes |-> MemRead(s.mem, t.pa, n).bytes]

\* readVirtualUint8 / readVirtualBigUint64: [exc, code, bytes]
ReadVirtual(s, virtualAddr, n) ==
    ReadPhysical(s, translateVirtualToPhysical(s, virtualAddr, n, "read"), n)

readVirtualUint8(s, virtualAddr) == ReadVirtual(s, virtualAddr, 1)
readVirtualBigUint64(s, virtualAddr) == ReadVirtual(s, virtualAddr, 8)

\* the bounds check and the Memory write at the translated address t
WritePhysical(s, t, value, n) ==
    IF t.exc # "none" THEN Throw(s, t.exc, t.code)
    ELSE IF t.pa < 0 \/ t.pa + (n - 1) >= MemSize
    THEN Throw(s, "MemoryAccessViolation", 0)
    ELSE [s EXCEPT !.mem = WrBytes(s.mem, t.pa, [i \in 1..n |-> ByteOf(value, i - 1)])]

\* writeVirtualUint8 .. writeVirtualBigUint64: the machine after the write,
\* or after the throw
WriteVirtual(s, virtualAddr, value, n) ==
    IF s.exc # "none" THEN s
    ELSE WritePhysical(s, translateVirtualToPhysical(s, virtualAddr, n, "write"),
                       value, n)

writeVirtualBigUint64(s, virtualAddr, value) == WriteVirtual(s, virtualAddr, value, 8)

(***************************************************************************)
(* Interrupt unit (CPU.assembleRFlags, disassembleRFlags, triggerInterrupt,*)
(* raiseInterrupt)                                                         *)
(***************************************************************************)
assembleRFlags(f) ==
    f.cf * (2 ^ FLAG_CF_BIT) + f.zf * (2 ^ FLAG_ZF_BIT) + f.sf * (2 ^ FLAG_SF_BIT)
    + f.of * (2 ^ FLAG_OF_BIT) + f.if * (2 ^ FLAG_IF_BIT) + 2

\* the flags held in the low 16 bits of a popped RFLAGS image
FlagsOf(lo) ==
    [cf |-> Bit(lo, FLAG_CF_BIT), zf |-> Bit(lo, FLAG_ZF_BIT),
     sf |-> Bit(lo, FLAG_SF_BIT), of |-> Bit(lo, FLAG_OF_BIT),
     if |-> Bit(lo, FLAG_IF_BIT)]

\* from the 8 bytes popped off the stack
disassembleRFlags(w) == FlagsOf(w[1] + 256 * w[2])

\* the fields of a 16-byte gate, from its low and high 8-byte slices
GateOffset(lowSlice, highSlice) ==
    (IF Val(SubSeq(highSlice, 1, 4)) = 0 THEN 0 ELSE OutOfModel)
    + (lowSlice[7] + 256 * lowSlice[8]) * 65536
    + (lowSlice[1] + 256 * lowSlice[2])
GateSelector(lowSlice) == lowSlice[3] + 256 * lowSlice[4]
GatePresent(lowSlice) == lowSlice[6] \div 128 = 1

NoErrorCode == -1

\* this.rsp -= 8n; this.writeVirtualBigUint64(this.rsp, value)
PushSlot(s, value) ==
    IF s.exc # "none" THEN s
    ELSE writeVirtualBigUint64([s EXCEPT !.regs["rsp"] = @ - 8],
                               s.regs["rsp"] - 8, value)

\* if (errorCode !== null) push it
PushErrorCode(s, errorCode) ==
    IF errorCode # NoErrorCode THEN PushSlot(s, errorCode) ELSE s

\* the frame pushes of triggerInterrupt, in program order: RFLAGS, selector,
\* RIP, the error code if there is one, the vector
PushFrame(s, interruptNumber, errorCode, segmentSelector) ==
    PushSlot(PushErrorCode(PushSlot(PushSlot(PushSlot(s, assembleRFlags(s.flags)),
                                             segmentSelector),
                                    s.rip),
                           errorCode),
             interruptNumber)

\* this.rip = handlerAddr, reached if no push threw
JumpToHandler(p, handlerAddr) ==
    IF p.exc # "none" THEN p ELSE [p EXCEPT !.rip = handlerAddr]

\* a delivery that pushes the frame before it looks at the Present bit
EnterGatePushingFirst(s, interruptNumber, errorCode, lowSlice, highSlice) ==
    IF lowSlice.exc # "none" THEN Throw(s, lowSlice.exc, lowSlice.code)
    ELSE IF highSlice.exc # "none" THEN Throw(s, highSlice.exc, highSlice.code)
    ELSE IF ~GatePresent(lowSlice.bytes)
    THEN Throw(PushFrame(s, interruptNumber, errorCode, GateSelector(lowSlice.bytes)),
               "DoubleFault", 0)
    ELSE JumpToHandler(PushFrame(s, interruptNumber, errorCode,
                                 GateSelector(lowSlice.bytes)),
                       GateOffset(lowSlice.bytes, highSlice.bytes))

\* triggerInterrupt once both slices of the gate are read
EnterGate(s, interruptNumber, errorCode, lowSlice, highSlice) ==
    IF lowSlice.exc # "none" THEN Throw(s, lowSlice.exc, lowSlice.code)
    ELSE IF highSlice.exc # "none" THEN Throw(s, highSlice.exc, highSlice.code)
    ELSE IF ~GatePresent(lowSlice.bytes) THEN Throw(s, "DoubleFault", 0)
    ELSE JumpToHandler(PushFrame(s, interruptNumber, errorCode,
                                 GateSelector(lowSlice.bytes)),
                       GateOffset(lowSlice.bytes, highSlice.bytes))

triggerInterrupt(s, interruptNumber, errorCode) ==
    EnterGate(s, interruptNumber, errorCode,
              readVirtualBigUint64(s, s.idtr.base + interruptNumber * 16),
              readVirtualBigUint64(s, s.idtr.base + interruptNumber * 16 + 8))

\* this.interruptQueue.push(interruptNumber)
Enqueue(q, entry) == Append(q, entry)

\* a queue that hands out its newest entry (pop() in place of shift())
DequeueNewest(q) == [entry |-> q[Len(q)], rest |-> SubSeq(q, 1, Len(q) - 1)]

\* this.interruptQueue.shift(): the entry taken and the queue left
Dequeue(q) == [entry |-> Head(q), rest |-> Tail(q)]

(***************************************************************************)
(* Register file (CPU.readRegister, writeRegister, getRegisterString)      *)
(***************************************************************************)
\* val & mask for sizeBytes 1, 2, 4, 8 (low-byte names)
Masked(val, sizeBytes) ==
    IF sizeBytes = 1 THEN val % 256
    ELSE IF sizeBytes = 2 THEN val % 65536
    ELSE IF sizeBytes = 4 THEN (IF val >= 0 THEN val ELSE OutOfModel)
    ELSE val

readRegister(s, fullReg, sizeBytes) == Masked(s.regs[fullReg], sizeBytes)

\* the new 64-bit value of a register written at the low-byte, word, dword
\* or qword view
Merged(currentVal, value, sizeBytes) ==
    IF sizeBytes = 1 THEN (currentVal - (currentVal % 256)) + (value % 256)
    ELSE IF sizeBytes = 2 THEN (currentVal - (currentVal % 65536)) + (value % 65536)
    ELSE IF sizeBytes = 4 THEN (IF value >= 0 THEN value ELSE OutOfModel)
    ELSE value

writeRegister(s, fullReg, value, sizeBytes) ==
    [s EXCEPT !.regs[fullReg] = Merged(@, value, sizeBytes)]

\* the 64-bit register that index regIndex names at sizes 2, 4 and 8
getRegisterString(regIndex) == RegNames64[regIndex + 1]

(***************************************************************************)
(* BigInt values of any magnitude, and CPU.updateArithmeticFlags           *)
(*                                                                         *)
(* A BigInt is held as the set of the positions of its one bits, in two's  *)
(* complement within a window of WideBits bits: the values of 64-bit       *)
(* arithmetic (sums, differences, sign-extended immediates) all lie well   *)
(* inside the window, so that no operation below wraps.                    *)
(***************************************************************************)
WideBits == 72

\* the BigInt of a number of the model (|v| < 2^31)
Wide(v) == {b \in 0..(WideBits - 1) : Bit(v, b) = 1}

\* a + b + c from bit i upwards (c is the carry into bit i)
RECURSIVE AddFrom(_, _, _, _)
AddFrom(a, b, i, c) ==
    IF i >= WideBits THEN {}
    ELSE (IF ((IF i \in a THEN 1 ELSE 0) + (IF i \in b THEN 1 ELSE 0) + c) % 2 = 1
          THEN {i} ELSE {})
         \cup AddFrom(a, b, i + 1,
                      ((IF i \in a THEN 1 ELSE 0) + (IF i \in b THEN 1 ELSE 0) + c) \div 2)

\* a + b
Plus(a, b) == AddFrom(a, b, 0, 0)

\* a - b
Minus(a, b) == AddFrom(a, (0..(WideBits - 1)) \ b, 0, 1)

\* a < b
Less(a, b) == (WideBits - 1) \in Minus(a, b)

\* (1n << BigInt(sizeBytes * 8)) - 1n
BitMask(sizeBytes) == 0..(sizeBytes * 8 - 1)

\* readRegister on the BigInt val of the full register; high says that
\* regName is one of ah, ch, dh, bh
readRegisterWide(val, high, sizeBytes) ==
    IF sizeBytes = 1 /\ high THEN {b - 8 : b \in val \cap (8..15)}
    ELSE IF sizeBytes = 8 THEN val
    ELSE val \cap BitMask(sizeBytes)

\* a writeRegister whose 4-byte write merges into the register as the 1-byte
\* and 2-byte writes do
writeRegisterMerging(currentVal, valToWrite, high, sizeBytes) ==
    IF sizeBytes = 1 /\ high
    THEN (currentVal \ (8..15)) \cup {b + 8 : b \in valToWrite \cap (0..7)}
    ELSE IF sizeBytes = 8 THEN valToWrite
    ELSE (currentVal \ BitMask(sizeBytes)) \cup (valToWrite \cap BitMask(sizeBytes))

\* writeRegister: the new BigInt of the full register
writeRegisterWide(currentVal, valToWrite, high, sizeBytes) ==
    IF sizeBytes = 1 /\ high
    THEN (currentVal \ (8..15)) \cup {b + 8 : b \in valToWrite \cap (0..7)}
    ELSE IF sizeBytes = 1 \/ sizeBytes = 2
    THEN (currentVal \ BitMask(sizeBytes)) \cup (valToWrite \cap BitMask(sizeBytes))
    ELSE IF sizeBytes = 4 THEN valToWrite \cap BitMask(4)
    ELSE valToWrite

\* updateArithmeticFlags: the flags f with CF, ZF, SF and OF recomputed from
\* the result res and the two operands
updateArithmeticFlags(f, res, operand1, operand2, sizeBytes, operation) ==
    [f EXCEPT
        !.zf = IF res \cap BitMask(sizeBytes) = {} THEN 1 ELSE 0,
        !.sf = IF (sizeBytes * 8 - 1) \in res THEN 1 ELSE 0,
        !.cf = IF operation = "add"
               THEN (IF Less(BitMask(sizeBytes), res) THEN 1 ELSE 0)
               ELSE IF operation = "sub"
               THEN (IF Less(operand1 \cap BitMask(sizeBytes),
                             operand2 \cap BitMask(sizeBytes)) THEN 1 ELSE 0)
               ELSE 0,
        !.of = IF operation = "add"
               THEN (IF /\ ((sizeBytes * 8 - 1) \in operand1)
                            = ((sizeBytes * 8 - 1) \in operand2)
                        /\ ((sizeBytes * 8 - 1) \in operand1)
                            # ((sizeBytes * 8 - 1) \in res) THEN 1 ELSE 0)
               ELSE IF operation = "sub"
               THEN (IF /\ ((sizeBytes * 8 - 1) \in operand1)
                            # ((sizeBytes * 8 - 1) \in operand2)
                        /\ ((sizeBytes * 8 - 1) \in operand1)
                            # ((sizeBytes * 8 - 1) \in res) THEN 1 ELSE 0)
               ELSE 0]

\* the BigInt of the little-endian bytes w
BytesWide(w) == {8 * (i - 1) + b : i \in 1..Len(w), b \in 0..7}
                    \cap {x \in 0..(8 * Len(w) - 1) : Bit(w[(x \div 8) + 1], x % 8) = 1}

\* readInstructionUint32 on the fetched bytes: (b4 << 24) | (b3 << 16) |
\* (b2 << 8) | b1 is an int32 of JavaScript, negative when bit 7 of b4 is set
readInstructionUint32Wide(w) ==
    BytesWide(w) \cup (IF w[4] >= 128 THEN 32..(WideBits - 1) ELSE {})

\* readSignedImmediate(Len(w)) on the fetched bytes w
readSignedImmediateWide(w) ==
    IF Len(w) = 1 \/ Len(w) = 2
    THEN BytesWide(w) \cup (IF w[Len(w)] >= 128 THEN (8 * Len(w))..(WideBits - 1) ELSE {})
    ELSE IF Len(w) = 4
    THEN (IF w[4] >= 128 THEN Minus(readInstructionUint32Wide(w), {32})
          ELSE readInstructionUint32Wide(w))
    ELSE ({b + 32 : b \in readInstructionUint32Wide(SubSeq(w, 5, 8))}
              \cap (0..(WideBits - 1)))
         \cup readInstructionUint32Wide(SubSeq(w, 1, 4))

(***************************************************************************)
(* Instruction fetch and decode (readInstructionByte, the prefix loop)     *)
(***************************************************************************)
\* this.memory.readUint8(Number(this.rip)) of real mode
ReadDirect(r) == [exc |-> r.exc, code |-> 0, bytes |-> r.bytes]

\* this.rip++ and the byte, once the byte is read
Fetched(s, r) ==
    IF r.exc # "none" THEN [s |-> Throw(s, r.exc, r.code), byte |-> 0]
    ELSE [s |-> [s EXCEPT !.rip = @ + 1], byte |-> r.bytes[1]]

readInstructionByte(s) ==
    Fetched(s, IF HasBit(s.cr0, CR0_PE) THEN readVirtualUint8(s, s.rip)
               ELSE ReadDirect(MemRead(s.mem, s.rip, 1)))

NoPrefix == [rexPrefix |-> 0, rex_w |-> 0, rex_r |-> 0, rex_x |-> 0, rex_b |-> 0]

\* the REX bits of a prefix byte 0x40..0x4F
RexOf(byte) ==
    [rexPrefix |-> byte, rex_w |-> (byte \div 8) % 2, rex_r |-> (byte \div 4) % 2,
     rex_x |-> (byte \div 2) % 2, rex_b |-> byte % 2]

RECURSIVE PrefixLoop(_, _)
\* one turn of the prefix loop on the byte that was fetched (r)
PrefixByte(r, pfx) ==
    IF r.s.exc # "none" THEN [s |-> r.s, pfx |-> pfx, opcode |-> -1]
    ELSE IF r.byte = 102 THEN PrefixLoop([r.s EXCEPT !.osz = TRUE], pfx)
    ELSE IF r.byte = 103 THEN PrefixLoop([r.s EXCEPT !.asz = TRUE], pfx)
    ELSE IF r.byte \div 16 = 4 THEN PrefixLoop(r.s, RexOf(r.byte))
    ELSE [s |-> r.s, pfx |-> pfx, opcode |-> r.byte]

PrefixLoop(s, pfx) == PrefixByte(readInstructionByte(s), pfx)

DefaultOperandSize(s, pfx) ==
    IF s.mode = "long" THEN (IF pfx.rex_w = 1 THEN 8 ELSE IF s.osz THEN 2 ELSE 4)
    ELSE IF s.mode = "real" THEN (IF s.osz THEN 4 ELSE 2)
    ELSE (IF s.osz THEN 2 ELSE 4)

\* the one-byte and two-byte opcodes step() has a handler for
OneByteHandled ==
    {144, 244, 116, 117, 1, 3, 5, 12, 13, 49, 51, 41, 43, 129, 131, 60, 61,
     198, 199, 142, 255, 143, 232, 195, 194, 141, 132, 133, 168, 169, 192, 193,
     124, 114, 235, 207, 238, 230, 172, 228, 236, 254, 251, 250, 234}
    \cup (176..191) \cup (8..11) \cup (32..35) \cup (56..59) \cup (136..139)
    \cup (80..87) \cup (88..95)
TwoByteHandled == {32, 34, 48, 50, 132, 133, 182, 183, 1}

\* the handlers this model translates
OneByteModelled ==
    {144, 244, 250, 251, 207, 172, 255, 143, 232, 195, 254, 1, 3, 41, 43, 129, 131,
     60, 61}
    \cup (80..87) \cup (88..95) \cup (56..59)

Return(s, r) == IF s.exc # "none" THEN s ELSE [s EXCEPT !.ret = r]

\* the operand size of PUSH reg and POP reg
StackOperandSize(s, pfx) ==
    IF s.mode = "long" THEN 8 ELSE DefaultOperandSize(s, pfx)

\* PUSH: this.rsp -= size; writeVirtual(this.rsp, value)
PushValue(s, value, sizeBytes) ==
    Return(WriteVirtual([s EXCEPT !.regs["rsp"] = @ - sizeBytes],
                        s.regs["rsp"] - sizeBytes, value, sizeBytes), "true")

\* PUSH reg (50..57)
ExecPushReg(s, pfx, opcode) ==
    PushValue(s, readRegister(s, getRegisterString((opcode - 80) + pfx.rex_b * 8),
                              StackOperandSize(s, pfx)),
              StackOperandSize(s, pfx))

\* POP: the value read (r) goes to the register, then this.rsp += size
PopInto(s, regName, r, sizeBytes) ==
    IF r.exc # "none" THEN Throw(s, r.exc, r.code)
    ELSE Return([writeRegister(s, regName, Val(r.bytes), sizeBytes)
                     EXCEPT !.regs["rsp"] = @ + sizeBytes], "true")

\* POP reg (58..5F)
ExecPopReg(s, pfx, opcode) ==
    PopInto(s, getRegisterString((opcode - 88) + pfx.rex_b * 8),
            ReadVirtual(s, s.regs["rsp"], StackOperandSize(s, pfx)),
            StackOperandSize(s, pfx))

ErrorCodeVectors == {8, 10, 11, 12, 13, 14, 17}

\* IRETQ, last pop: new_rflags (r), disassembleRFlags, rsp += 8
IretqFlags(s, r) ==
    IF r.exc # "none" THEN Throw(s, r.exc, r.code)
    ELSE Return([s EXCEPT !.flags = disassembleRFlags(r.bytes),
                          !.regs["rsp"] = @ + 8], "true")

\* IRETQ, third pop: the selector (r) is read and dropped, rsp += 8
IretqSelector(s, r) ==
    IF r.exc # "none" THEN Throw(s, r.exc, r.code)
    ELSE IretqFlags([s EXCEPT !.regs["rsp"] = @ + 8],
                    readVirtualBigUint64(s, s.regs["rsp"] + 8))

\* IRETQ, second pop: this.rip (r), rsp += 8
IretqRip(s, r) ==
    IF r.exc # "none" THEN Throw(s, r.exc, r.code)
    ELSE IretqSelector([s EXCEPT !.rip = Val(r.bytes), !.regs["rsp"] = @ + 8],
                       readVirtualBigUint64(s, s.regs["rsp"] + 8))

\* how far IRETQ moves RSP past the vector (and the error-code slot)
IretqSkip(interruptNumber) ==
    8 + (IF interruptNumber \in ErrorCodeVectors THEN 8 ELSE 0)

\* IRETQ, first pop: interruptNumber (r), rsp += 8, and 8 more if the vector
\* has an error code
IretqVector(s, r) ==
    IF r.exc # "none" THEN Throw(s, r.exc, r.code)
    ELSE IretqRip([s EXCEPT !.regs["rsp"] = @ + IretqSkip(Val(r.bytes))],
                  readVirtualBigUint64(s, s.regs["rsp"] + IretqSkip(Val(r.bytes))))

\* IRETQ (CF)
ExecIretq(s) == IretqVector(s, readVirtualBigUint64(s, s.regs["rsp"]))

\* LODSB once the byte at [RSI] is read (r)
LodsbStore(s, r) ==
    IF r.exc # "none" THEN Throw(s, r.exc, r.code)
    ELSE Return([writeRegister(s, "rax", r.bytes[1], 1)
                     EXCEPT !.regs["rsi"] = @ + 1], "true")

\* LODSB (AC)
ExecLodsb(s) == LodsbStore(s, readVirtualUint8(s, s.regs["rsi"]))

\* readModRMByte: the fields of a ModRM byte
ModRMOf(byte) ==
    [mod |-> byte \div 64, reg |-> (byte \div 8) % 8, rm |-> byte % 8, raw |-> byte]

\* POP r/m (8F /0) once the ModRM byte is fetched (r): this.rsp += sizeBytes,
\* then `value` is read before its declaration, which throws
ExecPopRM(r, pfx) ==
    IF r.s.exc # "none" THEN r.s
    ELSE IF ModRMOf(r.byte).reg # 0 \/ ModRMOf(r.byte).mod # 3
    THEN Throw(r.s, "Unmodelled", 0)
    ELSE Throw([r.s EXCEPT !.regs["rsp"] = @ + DefaultOperandSize(r.s, pfx)],
               "ReferenceError", 0)

\* readInstructionUint32 on the bytes fetched so far (acc), then the sign
\* test of readSignedImmediate(4); value -1 stands for a displacement with
\* bit 31 set, which the code extends twice
RECURSIVE ReadImm32(_, _)
Imm32Byte(r, acc) ==
    IF r.s.exc # "none" THEN [s |-> r.s, value |-> 0]
    ELSE ReadImm32(r.s, Append(acc, r.byte))

ReadImm32(s, acc) ==
    IF Len(acc) < 4 THEN Imm32Byte(readInstructionByte(s), acc)
    ELSE IF acc[4] >= 128 THEN [s |-> Throw(s, "Unmodelled", 0), value |-> -1]
    ELSE [s |-> s, value |-> Val(acc)]

\* readSignedImmediate(1) on the byte that was fetched (r)
SignedByte(r) ==
    [s |-> r.s, value |-> IF r.byte >= 128 THEN r.byte - 256 ELSE r.byte]

\* readSignedImmediate(2) on the low byte (lo) and the high byte (hi)
SignedWord(lo, hi) ==
    IF lo.s.exc # "none" THEN [s |-> lo.s, value |-> 0]
    ELSE [s |-> hi.s,
          value |-> IF hi.byte >= 128 THEN (hi.byte * 256 + lo.byte) - 65536
                    ELSE hi.byte * 256 + lo.byte]

readSignedImmediate(s, sizeBytes) ==
    IF sizeBytes = 4 THEN ReadImm32(s, <<>>)
    ELSE IF sizeBytes = 1 THEN SignedByte(readInstructionByte(s))
    ELSE IF sizeBytes = 2
    THEN SignedWord(readInstructionByte(s),
                    readInstructionByte(readInstructionByte(s).s))
    ELSE [s |-> Throw(s, "Unmodelled", 0), value |-> -1]

\* this.rip = target after the push of the return address (w): a push that
\* threw leaves RIP where the fetch of the instruction left it
JumpAfterPush(w, target) ==
    IF w.exc # "none" THEN w ELSE Return([w EXCEPT !.rip = target], "true")

\* CALL rel32 once the displacement is read (d): the return address is
\* pushed and RIP becomes return address + displacement
CallPush(d, retAddr) ==
    IF d.s.exc # "none" THEN d.s
    ELSE JumpAfterPush(writeVirtualBigUint64([d.s EXCEPT !.regs["rsp"] = @ - 8],
                                             d.s.regs["rsp"] - 8, retAddr),
                       retAddr + d.value)

\* CALL rel32 (E8): retAddr = currentRIPBeforeFetch + 5
ExecCallRel32(s, currentRIPBeforeFetch) ==
    CallPush(readSignedImmediate(s, 4), currentRIPBeforeFetch + 5)

\* RET (C3) once the return address is read (r)
RetTo(s, r) ==
    IF r.exc # "none" THEN Throw(s, r.exc, r.code)
    ELSE Return([s EXCEPT !.regs["rsp"] = @ + 8, !.rip = Val(r.bytes)], "true")

ExecRet(s) == RetTo(s, readVirtualBigUint64(s, s.regs["rsp"]))

(***************************************************************************)
(* ModRM operands (getRegisterString, resolveModRMOperand)                 *)
(***************************************************************************)
\* the number a BigInt stands for, where the model has one (|v| < 2^31)
RECURSIVE NumFrom(_, _)
NumFrom(w, i) ==
    IF i > 30 THEN 0 ELSE (IF i \in w THEN 2 ^ i ELSE 0) + NumFrom(w, i + 1)

Num(w) ==
    IF (WideBits - 1) \in w
    THEN (IF (31..(WideBits - 1)) \subseteq w
          THEN - NumFrom((0..30) \ w, 0) - 1 ELSE OutOfModel)
    ELSE (IF w \subseteq (0..30) THEN NumFrom(w, 0) ELSE OutOfModel)

\* getRegisterString with this.registers: the full register that index
\* regIndex names at sizeBytes, and whether the name is ah, ch, dh or bh
RegView(regIndex, sizeBytes, hasRexPrefix) ==
    IF sizeBytes = 1 /\ regIndex >= 4 /\ regIndex < 8 /\ ~hasRexPrefix
    THEN [name |-> RegNames64[regIndex - 3], high |-> TRUE]
    ELSE [name |-> RegNames64[regIndex + 1], high |-> FALSE]

\* readRegister / writeRegister through a view
readView(s, view, sizeBytes) ==
    IF view.high THEN (s.regs[view.name] \div 256) % 256
    ELSE readRegister(s, view.name, sizeBytes)

writeView(s, view, value, sizeBytes) ==
    IF view.high
    THEN [s EXCEPT !.regs[view.name] =
              (@ - ((@ \div 256) % 256) * 256) + (value % 256) * 256]
    ELSE writeRegister(s, view.name, value, sizeBytes)

\* the displacement d added to what the address is so far
AddDisp(d, base) == [s |-> d.s, address |-> base + d.value]

\* mod 01: disp8 follows, mod 10: disp32 follows
WithDisp(s, mod, base) ==
    IF mod = 1 THEN AddDisp(readSignedImmediate(s, 1), base)
    ELSE IF mod = 2 THEN AddDisp(readSignedImmediate(s, 4), base)
    ELSE [s |-> s, address |-> base]

\* the SIB byte that was fetched (r): scaled index, then base unless mod is
\* 00 and the base bits are 101, then the displacement mod asks for
SibAddress(r, modrm, pfx) ==
    IF r.s.exc # "none" THEN [s |-> r.s, address |-> 0]
    ELSE WithDisp(r.s, modrm.mod,
             (IF ((r.byte \div 8) % 8) + pfx.rex_x * 8 # 4
              THEN readRegister(r.s, getRegisterString(((r.byte \div 8) % 8)
                                                       + pfx.rex_x * 8), 8)
                   * (2 ^ (r.byte \div 64))
              ELSE 0)
             + (IF modrm.mod # 0 \/ (r.byte % 8) + pfx.rex_b * 8 # 5
                THEN readRegister(r.s, getRegisterString((r.byte % 8)
                                                         + pfx.rex_b * 8), 8)
                ELSE 0))

\* the effective address of a memory operand; the 16-bit addressing forms
\* (real mode without 0x67, the other modes with it) are not translated
EffectiveAddress(s, modrm, pfx) ==
    IF (s.mode = "real") # s.asz
    THEN [s |-> Throw(s, "Unmodelled", 0), address |-> 0]
    ELSE IF modrm.rm = 4 THEN SibAddress(readInstructionByte(s), modrm, pfx)
    ELSE IF modrm.mod = 0 /\ modrm.rm = 5
    THEN AddDisp(readSignedImmediate(s, 4), s.rip)
    ELSE WithDisp(s, modrm.mod,
                  readRegister(s, getRegisterString(modrm.rm + pfx.rex_b * 8), 8))

\* the operand record of an effective address
MemOperand(e) == [s |-> e.s, type |-> "mem", view |-> RegView(0, 8, TRUE),
                  address |-> e.address]

resolveModRMOperand(s, modrm, sizeBytes, pfx) ==
    IF modrm.mod = 3
    THEN [s |-> s, type |-> "reg",
          view |-> RegView(modrm.rm + pfx.rex_b * 8, sizeBytes, pfx.rexPrefix # 0),
          address |-> 0]
    ELSE MemOperand(EffectiveAddress(s, modrm, pfx))

\* the value of an operand: readRegister, or readVirtualUint8 .. BigUint64
ValueRead(r) ==
    [exc |-> r.exc, code |-> r.code, value |-> IF r.exc = "none" THEN Val(r.bytes) ELSE 0]

ReadOperand(s, o, sizeBytes) ==
    IF o.type = "reg"
    THEN [exc |-> "none", code |-> 0, value |-> readView(s, o.view, sizeBytes)]
    ELSE ValueRead(ReadVirtual(s, o.address, sizeBytes))

\* writeRegister, or writeVirtualUint8 .. BigUint64
WriteOperand(s, o, value, sizeBytes) ==
    IF o.type = "reg" THEN writeView(s, o.view, value, sizeBytes)
    ELSE WriteVirtual(s, o.address, value, sizeBytes)

(***************************************************************************)
(* ADD, SUB, CMP and the immediate group 0x81 / 0x83                       *)
(***************************************************************************)
\* result = destValue + sourceValue (add) or destValue - sourceValue (sub),
\* with the flags of updateArithmeticFlags
Arith(f, destValue, sourceValue, sizeBytes, operation) ==
    IF operation = "add"
    THEN [res |-> Plus(destValue, sourceValue),
          flags |-> updateArithmeticFlags(f, Plus(destValue, sourceValue),
                                          destValue, sourceValue, sizeBytes, "add")]
    ELSE [res |-> Minus(destValue, sourceValue),
          flags |-> updateArithmeticFlags(f, Minus(destValue, sourceValue),
                                          destValue, sourceValue, sizeBytes, "sub")]

\* the flags are set and, unless the instruction is CMP, the result is
\* written to the destination operand
Conclude(s, dest, a, sizeBytes, writeBack) ==
    Return(IF writeBack
           THEN WriteOperand([s EXCEPT !.flags = a.flags], dest, Num(a.res), sizeBytes)
           ELSE [s EXCEPT !.flags = a.flags], "true")

\* op reg, r/m and op r/m, reg once the r/m operand is resolved (o) and its
\* value is read (v): the direction bit says which operand is the destination
ArithOperands(o, v, regView, dBit, sizeBytes, operation, writeBack) ==
    IF v.exc # "none" THEN Throw(o.s, v.exc, v.code)
    ELSE IF dBit = 0
    THEN Conclude(o.s, o,
                  Arith(o.s.flags, Wide(v.value),
                        Wide(readView(o.s, regView, sizeBytes)), sizeBytes, operation),
                  sizeBytes, writeBack)
    ELSE Conclude(o.s, [o EXCEPT !.type = "reg", !.view = regView],
                  Arith(o.s.flags, Wide(readView(o.s, regView, sizeBytes)),
                        Wide(v.value), sizeBytes, operation),
                  sizeBytes, writeBack)

ArithResolved(o, regView, dBit, sizeBytes, operation, writeBack) ==
    IF o.s.exc # "none" THEN o.s
    ELSE ArithOperands(o, ReadOperand(o.s, o, sizeBytes), regView, dBit, sizeBytes,
                       operation, writeBack)

\* the common body of the handlers 01/03, 29/2B and 38..3B once the ModRM
\* byte is fetched (r)
ArithRM(r, pfx, opcode, sizeBytes, operation, writeBack) ==
    IF r.s.exc # "none" THEN r.s
    ELSE ArithResolved(resolveModRMOperand(r.s, ModRMOf(r.byte), sizeBytes, pfx),
                       RegView(ModRMOf(r.byte).reg + pfx.rex_r * 8, sizeBytes,
                               pfx.rexPrefix # 0),
                       (opcode \div 2) % 2, sizeBytes, operation, writeBack)

\* ADD (01, 03), SUB (29, 2B), CMP (38..3B)
ExecAdd(s, pfx, opcode) ==
    ArithRM(readInstructionByte(s), pfx, opcode,
            IF opcode % 2 = 0 THEN 1 ELSE DefaultOperandSize(s, pfx), "add", TRUE)

ExecSub(s, pfx, opcode) ==
    ArithRM(readInstructionByte(s), pfx, opcode,
            IF opcode % 2 = 0 THEN 1 ELSE DefaultOperandSize(s, pfx), "sub", TRUE)

ExecCmp(s, pfx, opcode) ==
    ArithRM(readInstructionByte(s), pfx, opcode,
            IF opcode % 2 = 0 THEN 1 ELSE DefaultOperandSize(s, pfx), "sub", FALSE)

\* CMP AL/AX/EAX/RAX, imm (3C, 3D) once the immediate is read (d)
CmpAcc(d, sizeBytes) ==
    IF d.s.exc # "none" THEN d.s
    ELSE Conclude(d.s, [type |-> "reg", view |-> RegView(0, sizeBytes, TRUE)],
                  Arith(d.s.flags, Wide(readRegister(d.s, "rax", sizeBytes)),
                        Wide(d.value), sizeBytes, "sub"),
                  sizeBytes, FALSE)

ExecCmpAcc(s, pfx, opcode) ==
    CmpAcc(readSignedImmediate(s, IF opcode = 60 THEN 1 ELSE 4),
           IF opcode = 60 THEN 1 ELSE DefaultOperandSize(s, pfx))

\* the switch of the group on /reg: the result and the flags; ADC and SBB
\* add the Number this.flags.cf to a BigInt, which throws a TypeError
Group1Result(f, destValue, immediateValue, reg, sizeBytes) ==
    IF reg = 0 THEN Arith(f, destValue, immediateValue, sizeBytes, "add")
    ELSE IF reg = 5 \/ reg = 7 THEN Arith(f, destValue, immediateValue, sizeBytes, "sub")
    ELSE [res |-> IF reg = 1 THEN destValue \cup immediateValue
                  ELSE IF reg = 4 THEN destValue \cap immediateValue
                  ELSE (destValue \cup immediateValue) \ (destValue \cap immediateValue),
          flags |-> [f EXCEPT
              !.cf = 0, !.of = 0,
              !.zf = IF (IF reg = 1 THEN destValue \cup immediateValue
                         ELSE IF reg = 4 THEN destValue \cap immediateValue
                         ELSE (destValue \cup immediateValue)
                              \ (destValue \cap immediateValue))
                        \cap BitMask(sizeBytes) = {} THEN 1 ELSE 0,
              !.sf = IF (sizeBytes * 8 - 1) \in
                        (IF reg = 1 THEN destValue \cup immediateValue
                         ELSE IF reg = 4 THEN destValue \cap immediateValue
                         ELSE (destValue \cup immediateValue)
                              \ (destValue \cap immediateValue)) THEN 1 ELSE 0]]

\* the group once the operand is resolved (o), the immediate is read (d)
\* and the destination value is read (v)
Group1Apply(o, d, v, reg, sizeBytes) ==
    IF v.exc # "none" THEN Throw(d.s, v.exc, v.code)
    ELSE IF reg = 2 \/ reg = 3 THEN Throw(d.s, "TypeError", 0)
    ELSE Conclude(d.s, o,
                  Group1Result(d.s.flags, Wide(v.value), Wide(d.value), reg, sizeBytes),
                  sizeBytes, reg # 7)

Group1Immediate(o, d, reg, sizeBytes) ==
    IF d.s.exc # "none" THEN d.s
    ELSE Group1Apply(o, d, ReadOperand(d.s, o, sizeBytes), reg, sizeBytes)

Group1Resolved(o, opcode, reg, sizeBytes) ==
    IF o.s.exc # "none" THEN o.s
    ELSE Group1Immediate(o, readSignedImmediate(o.s,
                                IF opcode = 131 THEN 1
                                ELSE IF sizeBytes = 2 THEN 2 ELSE 4),
                         reg, sizeBytes)

\* the group handler for 81 and 83 once its ModRM byte is fetched (r)
ExecGroup1(r, pfx, opcode) ==
    IF r.s.exc # "none" THEN r.s
    ELSE Group1Resolved(resolveModRMOperand(r.s, ModRMOf(r.byte),
                                            DefaultOperandSize(r.s, pfx), pfx),
                        opcode, ModRMOf(r.byte).reg, DefaultOperandSize(r.s, pfx))

\* CMP r/m32, imm32 (81 /7) once the immediate is read (d) and then the
\* operand is resolved (o): four bytes are compared
Cmp81Operand(o, d, v) ==
    IF v.exc # "none" THEN Throw(o.s, v.exc, v.code)
    ELSE Conclude(o.s, o, Arith(o.s.flags, Wide(v.value), Wide(d.value), 4, "sub"),
                  4, FALSE)

Cmp81Resolved(o, d) ==
    IF o.s.exc # "none" THEN o.s ELSE Cmp81Operand(o, d, ReadOperand(o.s, o, 4))

Cmp81Immediate(d, modrm, pfx) ==
    IF d.s.exc # "none" THEN d.s
    ELSE Cmp81Resolved(resolveModRMOperand(d.s, modrm, 4, pfx), d)

\* the handler for 81 that comes first: it fetches a ModRM byte (r) and
\* acts when /reg is 7; any other /reg goes on to the group handler, which
\* fetches its own ModRM byte
ExecCmp81(r, pfx) ==
    IF r.s.exc # "none" THEN r.s
    ELSE IF ModRMOf(r.byte).reg = 7
    THEN Cmp81Immediate(readSignedImmediate(r.s, 4), ModRMOf(r.byte), pfx)
    ELSE ExecGroup1(readInstructionByte(r.s), pfx, 129)

(***************************************************************************)
(* The handlers of 0xFE and 0xFF                                           *)
(***************************************************************************)
\* INC r/m once the value is read (v): the flags of an add of 1, CF kept
IncOperand(o, v, sizeBytes) ==
    IF v.exc # "none" THEN Throw(o.s, v.exc, v.code)
    ELSE Return(WriteOperand(
                    [o.s EXCEPT !.flags =
                        [updateArithmeticFlags(@, Plus(Wide(v.value), Wide(1)),
                                               Wide(v.value), Wide(1), sizeBytes, "add")
                            EXCEPT !.cf = o.s.flags.cf]],
                    o, v.value + 1, sizeBytes), "true")

IncResolved(o, sizeBytes) ==
    IF o.s.exc # "none" THEN o.s
    ELSE IncOperand(o, ReadOperand(o.s, o, sizeBytes), sizeBytes)

\* the handler for FE and FF that comes last, once its ModRM byte is fetched
\* (r): INC when /reg is 0; no handler is left for any other /reg
ExecIncRM(r, pfx, opcode) ==
    IF r.s.exc # "none" THEN r.s
    ELSE IF ModRMOf(r.byte).reg = 0
    THEN IncResolved(resolveModRMOperand(r.s, ModRMOf(r.byte),
                        IF opcode = 254 THEN 1 ELSE DefaultOperandSize(r.s, pfx), pfx),
                     IF opcode = 254 THEN 1 ELSE DefaultOperandSize(r.s, pfx))
    ELSE Return(r.s, "false")

\* CALL r/m once the target is read (v): the return address is this.rip
CallTarget(o, v) ==
    IF v.exc # "none" THEN Throw(o.s, v.exc, v.code)
    ELSE JumpAfterPush(writeVirtualBigUint64([o.s EXCEPT !.regs["rsp"] = @ - 8],
                                             o.s.regs["rsp"] - 8, o.s.rip),
                       v.value)

CallResolved(o, sizeBytes) ==
    IF o.s.exc # "none" THEN o.s
    ELSE CallTarget(o, ReadOperand(o.s, o, sizeBytes))

\* the second handler for FF, once its ModRM byte is fetched (r): CALL r/m
\* when /reg is 2, else on to the last handler, which fetches another byte
ExecCallRM(r, pfx) ==
    IF r.s.exc # "none" THEN r.s
    ELSE IF ModRMOf(r.byte).reg = 2
    THEN CallResolved(resolveModRMOperand(r.s, ModRMOf(r.byte),
                                          DefaultOperandSize(r.s, pfx), pfx),
                      DefaultOperandSize(r.s, pfx))
    ELSE ExecIncRM(readInstructionByte(r.s), pfx, 255)

\* PUSH r/m: this.rsp -= sizeBytes, then eight bytes are written at the new top
PushRMValue(s, value, sizeBytes) ==
    Return(writeVirtualBigUint64([s EXCEPT !.regs["rsp"] = @ - sizeBytes],
                                 s.regs["rsp"] - sizeBytes, value), "true")

PushRMOperand(o, v, sizeBytes) ==
    IF v.exc # "none" THEN Throw(o.s, v.exc, v.code)
    ELSE PushRMValue(o.s, v.value, sizeBytes)

PushRMResolved(o, sizeBytes) ==
    IF o.s.exc # "none" THEN o.s
    ELSE PushRMOperand(o, ReadOperand(o.s, o, sizeBytes), sizeBytes)

\* the first handler for FF, once its ModRM byte is fetched (r): PUSH r/m
\* when /reg is 6, else on to the second handler, which fetches another byte
ExecPushRM(r, pfx) ==
    IF r.s.exc # "none" THEN r.s
    ELSE IF ModRMOf(r.byte).reg = 6
    THEN PushRMResolved(resolveModRMOperand(r.s, ModRMOf(r.byte),
                                            DefaultOperandSize(r.s, pfx), pfx),
                        DefaultOperandSize(r.s, pfx))
    ELSE ExecCallRM(readInstructionByte(r.s), pfx)

\* the handler of a one-byte opcode
OneByte(t, pfx, op, currentRIPBeforeFetch) ==
    IF op = 144 THEN Return(t, "true")
    ELSE IF op = 244 THEN Return([t EXCEPT !.halted = TRUE], "true")
    ELSE IF op \in 80..87 THEN ExecPushReg(t, pfx, op)
    ELSE IF op = 255 THEN ExecPushRM(readInstructionByte(t), pfx)
    ELSE IF op = 254 THEN ExecIncRM(readInstructionByte(t), pfx, op)
    ELSE IF op = 1 \/ op = 3 THEN ExecAdd(t, pfx, op)
    ELSE IF op = 41 \/ op = 43 THEN ExecSub(t, pfx, op)
    ELSE IF op \in 56..59 THEN ExecCmp(t, pfx, op)
    ELSE IF op = 129 THEN ExecCmp81(readInstructionByte(t), pfx)
    ELSE IF op = 131 THEN ExecGroup1(readInstructionByte(t), pfx, op)
    ELSE IF op = 60 \/ op = 61 THEN ExecCmpAcc(t, pfx, op)
    ELSE IF op \in 88..95 THEN ExecPopReg(t, pfx, op)
    ELSE IF op = 143 THEN ExecPopRM(readInstructionByte(t), pfx)
    ELSE IF op = 232 THEN ExecCallRel32(t, currentRIPBeforeFetch)
    ELSE IF op = 195 THEN ExecRet(t)
    ELSE IF op = 207 THEN ExecIretq(t)
    ELSE IF op = 172 THEN ExecLodsb(t)
    ELSE IF op = 251 THEN Return([t EXCEPT !.flags.if = 1], "true")
    ELSE IF op = 250 THEN Return([t EXCEPT !.flags.if = 0], "true")
    ELSE IF op \in OneByteHandled THEN Throw(t, "Unmodelled", 0)
    ELSE Return(t, "false")

\* the bit positions that are set in the BigInt v, within the two's-complement
\* window of WideBits bits: a negative value has every high bit set
BitsOf(v) == Wide(v)

\* updateCPUMode()
updateCPUMode(s) ==
    [s EXCEPT !.mode =
        IF ~HasBit(s.cr0, CR0_PE) THEN "real"
        ELSE IF HasBit(s.efer, EFER_LME) /\ HasBit(s.cr4, CR4_PAE) /\ HasBit(s.cr0, CR0_PG)
        THEN "long"
        ELSE IF HasBit(s.cr0, CR0_PG) /\ HasBit(s.cr4, CR4_PAE) THEN "protected_pae"
        ELSE IF HasBit(s.cr0, CR0_PG) THEN "protected_32bit_paging"
        ELSE "protected"]

\* a MOV CRn that stores the source value and leaves the mode as it was
MovToCRStale(s, crIndex, sourceValue) ==
    IF crIndex = 0 THEN [s EXCEPT !.cr0 = sourceValue]
    ELSE IF crIndex = 4 THEN [s EXCEPT !.cr4 = sourceValue]
    ELSE IF crIndex = 3 THEN [s EXCEPT !.cr3 = sourceValue]
    ELSE s

\* the switch of MOV CRn, reg on the control register index; sourceValue is
\* the set of bits of the source register (CR2 is not part of the machine
\* record)
MovToCR(s, crIndex, sourceValue) ==
    IF crIndex = 0 THEN updateCPUMode([s EXCEPT !.cr0 = sourceValue])
    ELSE IF crIndex = 4 THEN updateCPUMode([s EXCEPT !.cr4 = sourceValue])
    ELSE IF crIndex = 3 THEN [s EXCEPT !.cr3 = sourceValue]
    ELSE s

\* the operands of a step whose source registers hold more than the integers
\* of this model do: bits is the set of bits of the source register of
\* MOV CRn, or of (RDX << 32) | (RAX & 0xFFFFFFFF) for WRMSR; efer says
\* whether RCX holds 0xC0000080
NoWideOperand == [on |-> FALSE, efer |-> FALSE, bits |-> {}]
WideOperand(msrIsEfer, bits) == [on |-> TRUE, efer |-> msrIsEfer, bits |-> bits]

\* the source register of MOV CRn as a set of bits
CRSourceBits(s, fullReg) ==
    IF s.wide.on THEN s.wide.bits ELSE BitsOf(readRegister(s, fullReg, 8))

\* MOV CRn, reg (0F 22) once the ModRM byte is fetched (r)
ExecMovToCR(r, pfx) ==
    IF r.s.exc # "none" THEN r.s
    ELSE Return(MovToCR(r.s, ModRMOf(r.byte).reg,
                        CRSourceBits(r.s, getRegisterString(ModRMOf(r.byte).rm + pfx.rex_b * 8))),
                "true")

\* the body of WRMSR: msrIsEfer says whether RCX holds 0xC0000080, value is
\* the set of bits of (RDX << 32) | (RAX & 0xFFFFFFFF)
Wrmsr(s, msrIsEfer, value) ==
    IF msrIsEfer THEN updateCPUMode([s EXCEPT !.efer = value]) ELSE s

\* WRMSR (0F 30) in step(): a value of RCX below 2^31 never names EFER
ExecWrmsr(s) ==
    IF s.wide.on THEN Return(Wrmsr(s, s.wide.efer, s.wide.bits), "true")
    ELSE Return(Wrmsr(s, FALSE, {}), "true")

\* the handler of a two-byte opcode, once its second byte is fetched (r)
TwoByte(r, pfx) ==
    IF r.s.exc # "none" THEN [s |-> r.s, opcode |-> -1]
    ELSE IF r.byte = 34
    THEN [s |-> ExecMovToCR(readInstructionByte(r.s), pfx), opcode |-> 3840 + r.byte]
    ELSE IF r.byte = 48 THEN [s |-> ExecWrmsr(r.s), opcode |-> 3840 + r.byte]
    ELSE IF r.byte \in TwoByteHandled
    THEN [s |-> Throw(r.s, "Unmodelled", 0), opcode |-> 3840 + r.byte]
    ELSE [s |-> Return(r.s, "false"), opcode |-> 3840 + r.byte]

\* the opcode dispatch on what the prefix loop decoded (d)
Dispatch(d, currentRIPBeforeFetch) ==
    IF d.s.exc # "none" THEN [s |-> d.s, opcode |-> -1]
    ELSE IF d.opcode = 15 THEN TwoByte(readInstructionByte(d.s), d.pfx)
    ELSE [s |-> OneByte(d.s, d.pfx, d.opcode, currentRIPBeforeFetch),
          opcode |-> d.opcode]

\* the body of the try block of step(): prefixes, opcode, handler
Execute(s, currentRIPBeforeFetch) ==
    Dispatch(PrefixLoop(s, NoPrefix), currentRIPBeforeFetch)

(***************************************************************************)
(* CPU.step() and CPU.raiseInterrupt()                                     *)
(***************************************************************************)
\* an interrupt check that does not look at IF
TakesInterruptIgnoringIF(s) == Len(s.q) > 0

\* if (this.flags.if && this.interruptQueue.length > 0)
TakesInterrupt(s) == s.flags.if = 1 /\ Len(s.q) > 0

\* the head of step(): a queued vector is dequeued and delivered
DeliverQueued(s) ==
    triggerInterrupt([s EXCEPT !.halted = FALSE, !.q = Dequeue(s.q).rest],
                     Dequeue(s.q).entry.vec, NoErrorCode)

\* the catch block of step()
CatchBlock(s, currentRIPBeforeFetch) ==
    IF s.exc = "PageFault"
    THEN triggerInterrupt([s EXCEPT !.rip = currentRIPBeforeFetch,
                                    !.exc = "none", !.code = 0], 14, s.code)
    ELSE s

\* the end of step() on what the try block did (e): return, or catch and
\* return true
TryOutcome(e, s1, currentRIPBeforeFetch) ==
    IF e.s.exc = "none"
    THEN [s |-> e.s, opcode |-> e.opcode, fault |-> -1, mid |-> s1]
    ELSE [s |-> [CatchBlock(e.s, currentRIPBeforeFetch) EXCEPT !.ret = "true"],
          opcode |-> e.opcode,
          fault |-> IF e.s.exc = "PageFault" THEN e.s.code ELSE -1,
          mid |-> s1]

\* a step() that fetches and executes also when the CPU is halted
AfterInterruptCheckIgnoringHalt(s1, currentRIPBeforeFetch) ==
    IF s1.exc # "none" THEN [s |-> s1, opcode |-> -1, fault |-> -1, mid |-> s1]
    ELSE TryOutcome(Execute(s1, currentRIPBeforeFetch), s1, currentRIPBeforeFetch)

\* what step() does once the interrupt check is done (s1: the machine then)
AfterInterruptCheck(s1, currentRIPBeforeFetch) ==
    IF s1.exc # "none" THEN [s |-> s1, opcode |-> -1, fault |-> -1, mid |-> s1]
    ELSE IF s1.halted
    THEN [s |-> [s1 EXCEPT !.ret = "true"], opcode |-> -1, fault |-> -1, mid |-> s1]
    ELSE TryOutcome(Execute(s1, currentRIPBeforeFetch), s1, currentRIPBeforeFetch)

\* step() from the reset of the override flags on
InterruptCheck(s0) ==
    AfterInterruptCheck(IF TakesInterrupt(s0) THEN DeliverQueued(s0) ELSE s0, s0.rip)

\* [s: the machine after the call, opcode: the opcode decoded or -1,
\*  fault: the error code of a caught page fault or -1,
\*  mid: the machine after the interrupt check]
step(c) == InterruptCheck([c EXCEPT !.osz = FALSE, !.asz = FALSE])

\* a raise that delivers at once when IF is set
raiseInterruptDelivering(c, entry) ==
    IF c.flags.if = 1 THEN triggerInterrupt(c, entry.vec, NoErrorCode)
    ELSE [c EXCEPT !.q = Enqueue(c.q, entry)]

\* this.interruptQueue.push(interruptNumber)
raiseInterrupt(c, entry) == [c EXCEPT !.q = Enqueue(c.q, entry)]

(***************************************************************************)
(* The machine record of the current state, and its write-back             *)
(***************************************************************************)
Cur == [rip |-> rip, regs |-> regs, flags |-> flags, halted |-> halted,
        mode |-> mode, cr0 |-> cr0, cr3 |-> cr3, cr4 |-> cr4, efer |-> efer,
        idtr |-> idtr, osz |-> operandSizeOverride, asz |-> addressSizeOverride,
        mem |-> mem, q |-> interruptQueue, exc |-> "none", code |-> 0, ret |-> "true",
        wide |-> NoWideOperand]

Becomes(s) ==
    /\ rip' = s.rip
    /\ regs' = s.regs
    /\ flags' = s.flags
    /\ halted' = s.halted
    /\ mode' = s.mode
    /\ cr0' = s.cr0
    /\ cr3' = s.cr3
    /\ cr4' = s.cr4
    /\ efer' = s.efer
    /\ idtr' = s.idtr
    /\ operandSizeOverride' = s.osz
    /\ addressSizeOverride' = s.asz
    /\ mem' = s.mem
    /\ interruptQueue' = s.q

\* the handler address in a gate whose slices were read (-1: unreadable or
\* absent)
GateHandler(lo, hi) ==
    IF lo.exc # "none" \/ hi.exc # "none" THEN -1
    ELSE IF ~GatePresent(lo.bytes) THEN -1
    ELSE GateOffset(lo.bytes, hi.bytes)

\* the handler address the IDT holds for a vector
HandlerOf(s, vector) ==
    GateHandler(readVirtualBigUint64(s, s.idtr.base + vector * 16),
                readVirtualBigUint64(s, s.idtr.base + vector * 16 + 8))

(***************************************************************************)
(* Host operations                                                         *)
(***************************************************************************)
\* the fields of the history record of a host call
Record(op, irq, irqId, handler, irqRsp, irqOk, opcode, fault, exc) ==
    [op |-> op, preRip |-> rip, preRsp |-> regs["rsp"], preHalted |-> halted,
     preFlags |-> flags, preQueue |-> interruptQueue,
     irq |-> irq, irqId |-> irqId, handler |-> handler, irqRsp |-> irqRsp,
     irqOk |-> irqOk, opcode |-> opcode, fault |-> fault, exc |-> exc]

\* the host script at its start: let stepsPerChunk = 200, no timer callback
\* has run, run() has not returned
HostStart == [stepsPerChunk |-> 200, tuned |-> 0, ended |-> FALSE]

\* run() returns for good once step() threw or returned false, or left rip at
\* or past the end of the memory
RunEnds(s) == s.exc # "none" \/ s.ret # "true" \/ s.rip >= MemSize

\* one call of step() by the host's run loop and what the loop does with its
\* outcome; operand: the source registers when they hold more than an integer
\* of this model, op: the name of the call in the history
RunStep(operand, op) ==
    /\ \E o \in {step([Cur EXCEPT !.wide = operand])}, took \in {TakesInterrupt(Cur)} :
         \E entry \in (IF took THEN {Dequeue(interruptQueue).entry}
                       ELSE {[vec |-> -1, id |-> -1]}) :
           /\ Becomes(o.s)
           /\ result' = IF o.s.exc # "none" THEN "throw" ELSE o.s.ret
           /\ host' = [host EXCEPT !.ended = RunEnds(o.s)]
           /\ raised' = raised
           /\ delivered' = IF took /\ o.mid.exc = "none"
                           THEN Append(delivered, entry.id) ELSE delivered
           /\ last' = Record(op, entry.vec, entry.id,
                             IF took THEN HandlerOf(Cur, entry.vec) ELSE -1,
                             IF took THEN o.mid.regs["rsp"] ELSE -1,
                             took /\ o.mid.exc = "none", o.opcode, o.fault, o.s.exc)

\* the run loop calls step() until run() has returned; the registers are the
\* integers the model holds
Step ==
    /\ ~host.ended
    /\ RunStep(NoWideOperand, "step")

\* a device or the host raises a vector at any time
RaiseInterrupt(v) ==
    /\ raised < MaxRaises
    /\ Becomes(raiseInterrupt(Cur, [vec |-> v, id |-> raised + 1]))
    /\ raised' = raised + 1
    /\ result' = result
    /\ delivered' = delivered
    /\ host' = host
    /\ last' = Record("raise", -1, -1, -1, -1, FALSE, -1, -1, "none")

\* The loop of the timer callback, for (let i = 0; i < stepsPerChunk; i++)
\* cpu.step(), is followed call by call in a record x:
\*   s, delivered  the machine and the delivery history after the calls made
\*   left          the number of calls still to make
\*   thrown        a call threw, which ends the callback
\*   mark, age     a machine the loop was in before, and the number of calls
\*                 made since then
\*   span          the number of calls after which mark is taken anew
\* step() is a function of the machine, so once the machine is again what it
\* was age calls earlier, the calls left repeat that round: whole rounds
\* leave the machine as it is and are taken off the calls left. A round
\* delivers nothing, because the queue it ends with is the one it began with.
LoopStart(c, d, n) ==
    [s |-> c, delivered |-> d, left |-> n, thrown |-> FALSE,
     mark |-> c, age |-> 0, span |-> 1]

\* the loop after one more call, whose outcome is o
AfterStepInARow(x, o) ==
    IF o.s.exc # "none"
    THEN [x EXCEPT !.s = o.s, !.thrown = TRUE,
                   !.delivered = IF TakesInterrupt(x.s) /\ o.mid.exc = "none"
                                 THEN Append(@, Dequeue(x.s.q).entry.id) ELSE @]
    ELSE IF [o.s EXCEPT !.ret = "true"] = x.mark
    THEN [x EXCEPT !.s = x.mark, !.left = (@ - 1) % (x.age + 1), !.age = 0]
    ELSE IF x.age + 1 = x.span
    THEN [x EXCEPT !.s = [o.s EXCEPT !.ret = "true"], !.left = @ - 1,
                   !.mark = [o.s EXCEPT !.ret = "true"], !.age = 0, !.span = 2 * @,
                   !.delivered = IF TakesInterrupt(x.s) /\ o.mid.exc = "none"
                                 THEN Append(@, Dequeue(x.s.q).entry.id) ELSE @]
    ELSE [x EXCEPT !.s = [o.s EXCEPT !.ret = "true"], !.left = @ - 1,
                   !.age = @ + 1,
                   !.delivered = IF TakesInterrupt(x.s) /\ o.mid.exc = "none"
                                 THEN Append(@, Dequeue(x.s.q).entry.id) ELSE @]

\* at most n more calls of the loop x, taken half by half; what step()
\* returns is ignored
RECURSIVE StepsInARow(_, _)
StepsInARow(x, n) ==
    IF x.thrown \/ x.left = 0 \/ n = 0 THEN x
    ELSE IF n = 1 THEN AfterStepInARow(x, step(x.s))
    ELSE StepsInARow(StepsInARow(x, n \div 2), n - (n \div 2))

\* the values tunePerformance may leave in stepsPerChunk, by the time the
\* steps took: 50 more, the same, or 50 fewer but no fewer than 50
Retuned(stepsPerChunk) ==
    {stepsPerChunk + 50, stepsPerChunk,
     IF stepsPerChunk - 50 > 50 THEN stepsPerChunk - 50 ELSE 50}

\* the interval timer of the host calls tunePerformance, whether run() has
\* returned or not; a throw of step() leaves stepsPerChunk as it was
TunePerformance ==
    /\ host.tuned < MaxTunes
    /\ \E r \in {StepsInARow(LoopStart(Cur, delivered, host.stepsPerChunk),
                            host.stepsPerChunk)} :
         /\ Becomes(r.s)
         /\ delivered' = r.delivered
         /\ \E stepsPerChunk \in (IF r.s.exc # "none" THEN {host.stepsPerChunk}
                                   ELSE Retuned(host.stepsPerChunk)) :
                host' = [host EXCEPT !.stepsPerChunk = stepsPerChunk,
                                     !.tuned = @ + 1]
         /\ last' = Record("tune", -1, -1, -1, -1, FALSE, -1, -1, r.s.exc)
    /\ UNCHANGED <<result, raised>>

(***************************************************************************)
(* Host set-up: CPU.setupIdentityPaging, Memory.load, the IDT gates        *)
(***************************************************************************)
\* Memory.load(addr, data): a load that does not lie within the buffer throws
\* and leaves the memory as it was
Load(m, addr, data) ==
    IF addr < 0 \/ addr + Len(data) > MemSize THEN m ELSE WrBytes(m, addr, data)

\* writeAndVerifyPTE(addr, value): the entry is written, read back as an
\* unsigned 64-bit number and compared with the value: a value outside
\* 0 .. 2^64 - 1 (here: a negative one) is stored modulo 2^64 and fails the
\* comparison, which throws after the write
writeAndVerifyPTE(m, addr, value) ==
    [mem |-> MemWrite64(m, addr, value), verified |-> value >= 0]

\* the pages whose PTE is written through writeAndVerifyPTE: every 100th one
\* and the ones at 0x7C00 and 0x8000
VerifiedPage(i, currentVirtualPage) ==
    i % 100 = 0 \/ currentVirtualPage = 31744 \/ currentVirtualPage = 32768

\* the loop that writes one PTE per mapped page; a failed verification ends
\* it with the entry written and the later ones not
RECURSIVE MapPages(_, _, _, _, _, _)
MapPages(m, virtualStart, physicalStart, numPages, ptTablePhys, i) ==
    IF i >= numPages THEN m
    ELSE LET currentVirtualPage == virtualStart + i * PAGE_SIZE
             currentPhysicalPage == physicalStart + i * PAGE_SIZE
             pte_value == BitOr(currentPhysicalPage,
                                PTE_PRESENT + PTE_READ_WRITE + PTE_USER_SUPER)
             ptIndex == Shr(currentVirtualPage, 12) % 512
             w == writeAndVerifyPTE(m, ptTablePhys + ptIndex * 8, pte_value)
         IN  IF VerifiedPage(i, currentVirtualPage) /\ ~w.verified THEN w.mem
             ELSE MapPages(w.mem, virtualStart, physicalStart, numPages,
                           ptTablePhys, i + 1)

\* the memory after setupIdentityPaging; the PML4 is at pageTableBasePhysAddr
\* the address of write n (0..2047) of the loop that zeroes the four tables:
\* entry n \div 4 of table n % 4
ZeroedAt(pageTableBasePhysAddr, n) ==
    pageTableBasePhysAddr + (n % 4) * PAGE_SIZE + (n \div 4) * 8

\* the zeroing loop when a table lies outside the memory: the writes before
\* the first one outside it are made, then writeBigUint64 throws
ZeroedUntilThrow(m, pageTableBasePhysAddr) ==
    LET first == CHOOSE n \in 0..2047 :
                     /\ ~InRange(ZeroedAt(pageTableBasePhysAddr, n), 8)
                     /\ \A x \in 0..(n - 1) : InRange(ZeroedAt(pageTableBasePhysAddr, x), 8)
    IN  <<>> @@ [a \in {y \in DOMAIN m :
                           \A n \in 0..(first - 1) :
                               y < ZeroedAt(pageTableBasePhysAddr, n)
                               \/ y > ZeroedAt(pageTableBasePhysAddr, n) + 7}
                  |-> m[a]]

\* the tables once the size is checked and they lie within the memory
IdentityTables(m, virtualStart, physicalStart, sizeBytes, pageTableBasePhysAddr) ==
    LET pml4TablePhys == pageTableBasePhysAddr
        pdptTablePhys == pml4TablePhys + PAGE_SIZE
        pdTablePhys == pdptTablePhys + PAGE_SIZE
        ptTablePhys == pdTablePhys + PAGE_SIZE
        linkFlags == PTE_PRESENT + PTE_READ_WRITE + PTE_USER_SUPER
        zeroed == <<>> @@ [x \in {a \in DOMAIN m : a < pml4TablePhys
                                                       \/ a >= ptTablePhys + PAGE_SIZE}
                           |-> m[x]]
        w1 == writeAndVerifyPTE(zeroed, pml4TablePhys, BitOr(pdptTablePhys, linkFlags))
        w2 == writeAndVerifyPTE(w1.mem, pdptTablePhys, BitOr(pdTablePhys, linkFlags))
        w3 == writeAndVerifyPTE(w2.mem, pdTablePhys, BitOr(ptTablePhys, linkFlags))
    IN  IF ~w1.verified THEN w1.mem
        ELSE IF ~w2.verified THEN w2.mem
        ELSE IF ~w3.verified THEN w3.mem
        ELSE MapPages(w3.mem, virtualStart, physicalStart, sizeBytes \div PAGE_SIZE,
                      ptTablePhys, 0)

\* CPU.setupIdentityPaging: a size that is no multiple of 4 KiB throws before
\* any write, a table outside the memory throws in the zeroing loop
setupIdentityPaging(m, virtualStart, physicalStart, sizeBytes, pageTableBasePhysAddr) ==
    IF sizeBytes % PAGE_SIZE # 0 THEN m
    ELSE IF \E n \in 0..2047 : ~InRange(ZeroedAt(pageTableBasePhysAddr, n), 8)
    THEN ZeroedUntilThrow(m, pageTableBasePhysAddr)
    ELSE IdentityTables(m, virtualStart, physicalStart, sizeBytes, pageTableBasePhysAddr)

\* the code segment selector of the boot code
CODE_SEG == 8

\* the 16-byte interrupt gate the boot code builds for a handler below 2^31:
\* the low qword is (addr & 0xFFFFFFFF) | ((addr >> 16) & 0xF000)
\* | 0x8E0000000000 | (CODE_SEG << 16), the high qword is addr >> 32
GateBytes(handlerAddr) ==
    <<handlerAddr % 256,
      BitOr((handlerAddr \div 256) % 256, (((handlerAddr \div 65536) % 65536) \div 4096) * 16),
      BitOr((handlerAddr \div 65536) % 256, CODE_SEG),
      (handlerAddr \div 16777216) % 256,
      0, 142, 0, 0,
      0, 0, 0, 0, 0, 0, 0, 0>>

\* the gate as built, or with the present bit of its attribute byte cleared
\* by the host (attribute 0x0E)
GateFor(handlerAddr, present) ==
    IF present THEN GateBytes(handlerAddr) ELSE [GateBytes(handlerAddr) EXCEPT ![6] = 14]

(***************************************************************************)
(* The machines the model starts from                                      *)
(***************************************************************************)
\* the memory layout of the machines checked here, scaled down to a 1 MiB
\* memory: guest code, the three handlers, the IDT, the page tables and the
\* size of the identity-mapped region
Layout == [code |-> 256, h13 |-> 640, h14 |-> 512, h32 |-> 576, idt |-> 2048,
           tables |-> 65536, mappedBytes |-> 20480, selector |-> CODE_SEG]

\* CLI; NOP; LODSB; PUSH RAX; STI; POP RAX; HLT
MainProgram == <<250, 144, 172, 80, 251, 88, 244>>

\* the handler of vector 14: NOP; IRETQ
PageFaultHandler == <<144, 72, 207>>

\* the handlers of the raised vectors: IRETQ alone, or after HLT or LODSB
HandlerBodies == {<<72, 207>>, <<244, 72, 207>>, <<172, 72, 207>>}

\* initial RSP: inside the mapped region, 8 bytes above its end, outside it
StackChoices == {1792, 20488, 22528}

\* initial RSI: a mapped address, an unmapped one
DataChoices == {768, 20480}

\* vectors the devices raise
RaiseVectors == {13, 32}

BootImage(body) ==
    LET m0 == Load(<<>>, Layout.code, MainProgram)
        m1 == Load(m0, Layout.h14, PageFaultHandler)
        m2 == Load(m1, Layout.h13, body)
        m3 == Load(m2, Layout.h32, body)
        m4 == Load(m3, Layout.idt + 13 * 16, GateBytes(Layout.h13))
        m5 == Load(m4, Layout.idt + 14 * 16, GateBytes(Layout.h14))
    IN  Load(m5, Layout.idt + 32 * 16, GateBytes(Layout.h32))

Init ==
    \E longMode \in BOOLEAN, rsp0 \in StackChoices, rsi0 \in DataChoices,
       body \in HandlerBodies :
        /\ rip = Layout.code
        /\ regs = [r \in Range(RegNames64) |->
                      IF r = "rsp" THEN rsp0 ELSE IF r = "rsi" THEN rsi0 ELSE 0]
        /\ flags = [cf |-> 0, zf |-> 0, sf |-> 0, of |-> 0, if |-> 1]
        /\ halted = FALSE
        /\ mode = IF longMode THEN "long" ELSE "real"
        /\ cr0 = IF longMode THEN {CR0_PE, CR0_PG} ELSE {}
        /\ cr3 = IF longMode THEN Wide(Layout.tables) ELSE {}
        /\ cr4 = IF longMode THEN {CR4_PAE} ELSE {}
        /\ efer = IF longMode THEN {0, EFER_LME} ELSE {}
        /\ idtr = [base |-> Layout.idt, limit |-> 4095]
        /\ operandSizeOverride = FALSE
        /\ addressSizeOverride = FALSE
        /\ mem = IF longMode
                 THEN setupIdentityPaging(BootImage(body), 0, 0, Layout.mappedBytes,
                                          Layout.tables)
                 ELSE BootImage(body)
        /\ interruptQueue = <<>>
        /\ result = "none"
        /\ raised = 0
        /\ delivered = <<>>
        /\ host = HostStart
        /\ last = [op |-> "init", preRip |-> -1, preRsp |-> -1, preHalted |-> FALSE,
                   preFlags |-> [cf |-> 0, zf |-> 0, sf |-> 0, of |-> 0, if |-> 1],
                   preQueue |-> <<>>, irq |-> -1, irqId |-> -1,
                   handler |-> -1, irqRsp |-> -1, irqOk |-> FALSE,
                   opcode |-> -1, fault |-> -1, exc |-> "none"]

\* the host of emcpu.umd.js: its run loop and the devices; its interval timer
\* retunes stepsPerChunk and makes no call of step()
Next ==
    \/ Step
    \/ \E v \in RaiseVectors : RaiseInterrupt(v)

Spec == Init /\ [][Next]_vars

\* the host script whose interval timer calls tunePerformance: the run loop,
\* the devices and the timer
TimerNext ==
    \/ Step
    \/ \E v \in RaiseVectors : RaiseInterrupt(v)
    \/ TunePerformance

TimerSpec == Init /\ [][TimerNext]_vars

\* every opcode the model meets is one it translates
ModelAdequate == last.exc # "Unmodelled"

(***************************************************************************)
(* Guest programs: a second family of machines, each running one short     *)
(* program from Layout.code                                                *)
(***************************************************************************)
\* the IDT and the handlers around a program; the gates of the vectors in
\* absent have Present = 0
ProgramImage(code, absent) ==
    LET m0 == Load(<<>>, Layout.code, code)
        m1 == Load(m0, Layout.h14, PageFaultHandler)
        m2 == Load(m1, Layout.h13, <<72, 207>>)
        m3 == Load(m2, Layout.h32, <<72, 207>>)
        m4 == Load(m3, Layout.idt + 13 * 16,
                   GateFor(Layout.h13, 13 \notin absent))
        m5 == Load(m4, Layout.idt + 14 * 16,
                   GateFor(Layout.h14, 14 \notin absent))
    IN  Load(m5, Layout.idt + 32 * 16,
             GateFor(Layout.h32, 32 \notin absent))

\* the page table setupIdentityPaging builds at Layout.tables
LeafTable == Layout.tables + 3 * PAGE_SIZE

\* the first address past the memory buffer
BeyondMemory == MemSize

\* the host maps the first pages to themselves; with "far" it then points
\* the page at 16384 to the first frame past the memory buffer
Paged(m, paging) ==
    IF paging = "far"
    THEN MemWrite64(setupIdentityPaging(m, 0, 0, Layout.mappedBytes, Layout.tables),
                    LeafTable + 4 * 8,
                    BitOr(BeyondMemory, PTE_PRESENT + PTE_READ_WRITE + PTE_USER_SUPER))
    ELSE setupIdentityPaging(m, 0, 0, Layout.mappedBytes, Layout.tables)

Sc(code, long, rsp0, rsi0, rax0, rbx0, paging, absent) ==
    [code |-> code, long |-> long, rsp |-> rsp0, rsi |-> rsi0, rax |-> rax0,
     rbx |-> rbx0, paging |-> paging, absent |-> absent, pe |-> FALSE]

\* the scenario sc with the machine in protected mode without paging (CR0.PE
\* alone set) instead of real mode
Protected(sc) == [sc EXCEPT !.pe = TRUE]

\* CMP EAX, EBX; ADC EAX, 5 or SBB EAX, 5; HLT
CarryPrograms == {<<57, 216, 131, 208, 5, 244>>, <<57, 216, 131, 216, 5, 244>>}

\* ADD EAX, EBX bare, behind 0x66 and behind REX.W, then HLT
OperandSizePrograms == {<<1, 216, 244>>, <<102, 1, 216, 244>>, <<72, 1, 216, 244>>}

\* programs that meet a byte step() has no handler for: 06 alone, after a
\* NOP and a REX prefix, and 0F 0B
UnknownOpcodePrograms == {<<6>>, <<144, 72, 6>>, <<15, 11>>, <<144, 15, 11>>}

\* PUSH r1; PUSH r2; POP r2; POP r1; HLT for r1, r2 among RAX, RBX, RSP
PushPopPrograms ==
    {<<80 + r1, 80 + r2, 88 + r2, 88 + r1, 244>> : r1 \in {0, 3, 4}, r2 \in {0, 3, 4}}

\* PUSH and POP in the register and the r/m form, bare, with REX.W and with
\* the operand-size prefix
StackFormPrograms ==
    {<<80, 88, 244>>, <<102, 80, 102, 88, 244>>, <<72, 80, 72, 88, 244>>,
     <<255, 240, 244>>, <<72, 255, 240, 244>>, <<102, 255, 240, 244>>,
     <<143, 192, 244>>, <<72, 143, 192, 244>>}

\* CALL over HLT and NOPs to the RET at Layout.code + 8, bare, behind a
\* REX or operand-size prefix, and after a NOP
CallPrograms ==
    {<<232, 3, 0, 0, 0, 244, 144, 144, 195>>,
     <<72, 232, 2, 0, 0, 0, 244, 144, 195>>,
     <<102, 232, 2, 0, 0, 0, 244, 144, 195>>,
     <<144, 232, 2, 0, 0, 0, 244, 144, 195>>}

\* MOV CR0, RAX; MOV CR4, RBX; MOV CR3, RBX; WRMSR; HLT
ControlPrograms == {<<15, 34, 192, 244>>, <<15, 34, 227, 244>>,
                    <<15, 34, 219, 244>>, <<15, 48, 244>>}

\* LODSB; HLT and PUSH RAX; HLT
AccessPrograms == {<<172, 244>>, <<80, 244>>}

\* CMP in each of its forms, then HLT: CMP EAX, EBX (39 and 3B), CMP AL, BL,
\* CMP RAX, RBX, CMP AX, BX, CMP AL, 5, CMP EAX, 5, CMP EAX, 5 (83 and 81),
\* CMP RAX, -1, and 81 /7 with a zero immediate behind the operand-size
\* prefix and bare
ComparePrograms ==
    {<<57, 216, 244>>, <<59, 195, 244>>, <<56, 216, 244>>, <<72, 57, 216, 244>>,
     <<102, 57, 216, 244>>, <<60, 5, 244>>, <<61, 5, 0, 0, 0, 244>>,
     <<131, 248, 5, 244>>, <<129, 248, 5, 0, 0, 0, 244>>, <<72, 131, 248, 255, 244>>,
     <<102, 129, 248, 0, 0, 0, 0, 244>>, <<129, 248, 0, 0, 0, 0, 244>>}

\* the groups FE and FF on a register: INC EAX, INC RAX, INC AL, DEC EAX,
\* CALL RAX, JMP RAX and PUSH RAX, each followed by HLT and NOPs, with a RET
\* at Layout.code + 8, where RAX points
GroupPrograms ==
    {<<255, m, 244, 144, 144, 144, 144, 144, 195>> : m \in {192, 200, 208, 224, 240}}
    \cup {<<72, 255, 192, 244, 144, 144, 144, 144, 195>>,
          <<254, 192, 244, 144, 144, 144, 144, 144, 195>>}

\* the immediate group on EAX (AX in real mode): 83 /reg with the immediate
\* 5 for every /reg, and 81 /reg with the immediate C3 followed by PUSH RAX
\* and HLT (four immediate bytes) or by HLT (two, in real mode)
ImmediateGroupPrograms ==
    {<<131, 192 + 8 * reg, 5, 244>> : reg \in 0..7}
    \cup {<<129, 192 + 8 * reg, 195, 0, 0, 0, 80, 244>> : reg \in {0, 1, 5}}

\* the immediate group on memory at RSI: ADD dword [RSI], 5 by ModRM alone,
\* with a displacement and through a SIB byte, and CMP dword [RSI + 12], 5
\* (81 /7) with the dword 5 placed at Layout.code + 12, where RSI + 12 points
ImmediateGroupMemoryPrograms ==
    {<<131, 6, 5, 244>>, <<131, 70, 8, 5, 244>>, <<131, 4, 38, 5, 244>>,
     <<129, 126, 12, 5, 0, 0, 0, 244, 244, 244, 244, 244, 5, 0, 0, 0>>}

\* memory operands without a base register, each followed by HLT:
\* ADD [RIP + 0x200], EBX and ADD dword [RIP + 0x200], 5 (mod 00, rm 101),
\* ADD [0x300], EBX and ADD dword [0x300], 5 (SIB with mod 00 and base 101)
DisplacementPrograms ==
    {<<1, 29, 0, 2, 0, 0, 244>>, <<131, 5, 0, 2, 0, 0, 5, 244>>,
     <<1, 28, 37, 0, 3, 0, 0, 244>>, <<131, 4, 37, 0, 3, 0, 0, 5, 244>>}

Scenarios ==
    {Sc(c, l, 1792, 768, 4369, 8738, "pt", {}) :
        c \in UnknownOpcodePrograms \cup StackFormPrograms \cup CallPrograms,
        l \in BOOLEAN}
    \cup {Sc(c, TRUE, 1792, 768, 4369, 8738, "pt", {}) : c \in PushPopPrograms}
    \cup {Sc(c, l, 1792, 768, x, x, "pt", {}) :
            c \in ControlPrograms, l \in BOOLEAN, x \in {0, 1, 33}}
    \cup {Sc(c, l, 1792, 768, x, 8738, "pt", {}) :
            c \in ComparePrograms, l \in BOOLEAN, x \in {5, 65536}}
    \cup {Sc(<<57, 30, 244>>, TRUE, 1792, 768, 5, 8738, "pt", {})}
    \cup {Sc(c, l, 1792, 768, Layout.code + 8, 8738, "pt", {}) :
            c \in GroupPrograms, l \in BOOLEAN}
    \cup {Sc(c, TRUE, 1792, 768, 65541, 8738, "pt", {}) : c \in ImmediateGroupPrograms}
    \cup {Sc(<<131, 192 + 8 * reg, 5, 244>>, FALSE, 1792, 768, 65541, 8738, "pt", {}) :
            reg \in {0, 2, 7}}
    \cup {Sc(<<129, 192, 195, 0, 244, 244>>, FALSE, 1792, 768, 65541, 8738, "pt", {})}
    \cup {Sc(c, TRUE, 1792, IF c[1] = 129 THEN Layout.code ELSE 768, 65541, 8738,
               "pt", {}) : c \in ImmediateGroupMemoryPrograms}
    \cup {Sc(c, TRUE, 1792, 768, 4369, 8738, "pt", {}) : c \in DisplacementPrograms}
    \* RAX below RBX (CF = 1 after the CMP) and above it (CF = 0)
    \cup {Sc(c, l, 1792, 768, x, 8738, "pt", {}) :
            c \in CarryPrograms, l \in BOOLEAN, x \in {5, 65541}}
    \* RAX = 0xFFFF and RBX = 1 in long, real and protected mode
    \cup {Sc(c, l, 1792, 768, 65535, 1, "pt", {}) : c \in OperandSizePrograms, l \in BOOLEAN}
    \cup {Protected(Sc(c, FALSE, 1792, 768, 65535, 1, "pt", {})) : c \in OperandSizePrograms}
    \* CLI; HLT: the CPU halts with interrupts disabled
    \cup {Sc(<<250, 244>>, l, 1792, 768, 4369, 8738, "pt", {}) : l \in BOOLEAN}
    \* the data or the stack is unmapped, and the gate of vector 14 is or is
    \* not present
    \cup {Sc(c, TRUE, r, 20480, 4369, 8738, "pt", a) :
            c \in AccessPrograms, r \in {1792, 20488}, a \in {{}, {14}}}
    \* CALL rel32 with the stack unmapped
    \cup {Sc(<<232, 3, 0, 0, 0, 244, 144, 144, 195>>, TRUE, 20488, 768, 4369, 8738,
              "pt", {})}
    \* the gates of the raised vectors are not present
    \cup {Sc(<<144, 250, 251, 244>>, l, 1792, 768, 4369, 8738, "pt", {13, 32}) :
            l \in BOOLEAN}
    \* the data or the stack is past the memory buffer
    \cup {Sc(c, FALSE, r, BeyondMemory, 4369, 8738, "pt", {}) :
            c \in AccessPrograms, r \in {1792, 1}}
    \cup {Sc(c, TRUE, r, 16384, 4369, 8738, "far", {}) :
            c \in AccessPrograms, r \in {1792, 16392 + 8}}

\* the machine of scenario sc before the first step
StartsAs(sc) ==
        /\ rip = Layout.code
        /\ regs = [r \in Range(RegNames64) |->
                      IF r = "rsp" THEN sc.rsp ELSE IF r = "rsi" THEN sc.rsi
                      ELSE IF r = "rax" THEN sc.rax ELSE IF r = "rbx" THEN sc.rbx
                      ELSE 0]
        /\ flags = [cf |-> 0, zf |-> 0, sf |-> 0, of |-> 0, if |-> 1]
        /\ halted = FALSE
        /\ mode = IF sc.long THEN "long" ELSE IF sc.pe THEN "protected" ELSE "real"
        /\ cr0 = IF sc.long THEN {CR0_PE, CR0_PG} ELSE IF sc.pe THEN {CR0_PE} ELSE {}
        /\ cr3 = IF sc.long THEN Wide(Layout.tables) ELSE {}
        /\ cr4 = IF sc.long THEN {CR4_PAE} ELSE {}
        /\ efer = IF sc.long THEN {0, EFER_LME} ELSE {}
        /\ idtr = [base |-> Layout.idt, limit |-> 4095]
        /\ operandSizeOverride = FALSE
        /\ addressSizeOverride = FALSE
        /\ mem = IF sc.long THEN Paged(ProgramImage(sc.code, sc.absent), sc.paging)
                 ELSE ProgramImage(sc.code, sc.absent)
        /\ interruptQueue = <<>>
        /\ result = "none"
        /\ raised = 0
        /\ delivered = <<>>
        /\ host = HostStart
        /\ last = [op |-> "init", preRip |-> -1, preRsp |-> -1, preHalted |-> FALSE,
                   preFlags |-> [cf |-> 0, zf |-> 0, sf |-> 0, of |-> 0, if |-> 1],
                   preQueue |-> <<>>, irq |-> -1, irqId |-> -1,
                   handler |-> -1, irqRsp |-> -1, irqOk |-> FALSE,
                   opcode |-> -1, fault |-> -1, exc |-> "none"]

ProgInit == \E sc \in Scenarios : StartsAs(sc)

ProgNext ==
    \/ Step
    \/ RaiseInterrupt(32)

ProgSpec == ProgInit /\ [][ProgNext]_vars

(***************************************************************************)
(* Control-register writes with source values of any width: guest programs *)
(* of MOV CRn, RBX and WRMSR, stepped with the source registers holding    *)
(* values the integers of the model cannot                                 *)
(***************************************************************************)
\* source values: subsets of PE, MP, PG for CR0, of PSE, PAE for CR4, of
\* SCE, LME, LMA for EFER; a bit for CR2; for CR3 no table, the one at
\* Layout.tables, and either with bit 32 set
ControlBits == [cr0 |-> {CR0_PE, 1, CR0_PG}, cr4 |-> {4, CR4_PAE}, efer |-> {0, EFER_LME, 10},
                cr2 |-> {4}, cr3 |-> {16, 32}]

\* MOV CRn, RBX (0F 22 /n with mod = 3, rm = 3) and WRMSR (0F 30)
MovCRBytes(crIndex) == <<15, 34, 192 + 8 * crIndex + 3>>
WrmsrBytes == <<15, 48>>

\* programs of three such instructions
ModePrograms ==
    {a \o b \o c : a, b, c \in {MovCRBytes(n) : n \in {0, 2, 3, 4}} \cup {WrmsrBytes}}

\* the machines that run them: in real mode without tables, in long mode on
\* the identity-mapped tables
ModeScenarios ==
    {Sc(c, long, 1792, 768, 0, 0, "pt", {}) : c \in ModePrograms, long \in BOOLEAN}

ModeInit == \E sc \in ModeScenarios : StartsAs(sc)

\* the bytes w are the ones in memory at rip
AtRip(w) == \A i \in 1..Len(w) : Rd(mem, rip + i - 1) = w[i]

\* a step of the run loop at MOV CRn, RBX, with RBX holding value: the value
\* is what the step reads from the register, regs does not keep it
MovCR(crIndex, value) ==
    /\ ~host.ended
    /\ AtRip(MovCRBytes(crIndex))
    /\ RunStep(WideOperand(FALSE, value), "movcr")

\* a step of the run loop at WRMSR, with RCX naming EFER or another register
\* and EDX:EAX holding value
WriteMSR(msrIsEfer, value) ==
    /\ ~host.ended
    /\ AtRip(WrmsrBytes)
    /\ RunStep(WideOperand(msrIsEfer, value), "wrmsr")

ModeNext ==
    \/ \E value \in SUBSET ControlBits.cr0 : MovCR(0, value)
    \/ \E value \in SUBSET ControlBits.cr4 : MovCR(4, value)
    \/ \E value \in SUBSET ControlBits.cr3 : MovCR(3, value)
    \/ MovCR(2, ControlBits.cr2)
    \/ \E msrIsEfer \in BOOLEAN, value \in SUBSET ControlBits.efer :
           WriteMSR(msrIsEfer, value)

ModeSpec == ModeInit /\ [][ModeNext]_vars

(***************************************************************************)
(* The MMU on its own: the host builds page tables, then calls             *)
(* translateVirtualToPhysical, readVirtualBigUint64, writeVirtualBigUint64 *)
(***************************************************************************)
\* setupIdentityPaging(memory, vstart, pstart, size, Layout.tables) for
\* regions below, across and above the 2 MiB line
IdentityConfigs ==
    {[kind |-> "identity", vstart |-> v, pstart |-> p, size |-> z, writable |-> TRUE] :
        v \in {0, 4096, 2093056, 2097152}, p \in {0, 8192}, z \in {4096, 8192}}

\* tables written by hand whose leaf for the page at 4096 is a 4 KiB PTE
\* (frame 12288), a 2 MiB PDE or a 1 GiB PDPTE, with R/W set or clear
LeafConfigs ==
    {[kind |-> k, vstart |-> 0, pstart |-> 0, size |-> 8192, writable |-> w] :
        k \in {"leaf4k", "leaf2m", "leaf1g"}, w \in BOOLEAN}

\* the flag bits of a leaf entry
LeafFlags(writable) ==
    PTE_PRESENT + PTE_USER_SUPER + (IF writable THEN PTE_READ_WRITE ELSE 0)

\* the page tables of a configuration, in a memory that holds m
Tables(m, cfg) ==
    IF cfg.kind = "identity"
    THEN setupIdentityPaging(m, cfg.vstart, cfg.pstart, cfg.size, Layout.tables)
    ELSE IF cfg.kind = "leaf4k"
    THEN MemWrite64(setupIdentityPaging(m, 0, 0, cfg.size, Layout.tables),
                    LeafTable + 8, BitOr(12288, LeafFlags(cfg.writable)))
    ELSE IF cfg.kind = "leaf2m"
    THEN MemWrite64(setupIdentityPaging(m, 0, 0, cfg.size, Layout.tables),
                    Layout.tables + 2 * PAGE_SIZE,
                    LeafFlags(cfg.writable) + PTE_PAGE_SIZE)
    ELSE MemWrite64(setupIdentityPaging(m, 0, 0, cfg.size, Layout.tables),
                    Layout.tables + PAGE_SIZE,
                    LeafFlags(cfg.writable) + PTE_PAGE_SIZE)

\* data the host loads into the frames at 4096 and 12288
FrameData == Load(Load(<<>>, 4096, <<17, 18, 19, 20>>), 12288, <<33, 34, 35, 36>>)

\* the addresses the host translates, and the ones it reads and writes
\* eight bytes at: across the line between two mapped pages, across the end
\* of the mapping, and inside the page at 4096
TranslateProbes == {0, 4095, 4096, 8191, 2093056, 2097152, 2101247}
AccessProbes == {4094, 8190, 4096}

\* the value the host writes, 0x01020304: bytes 04 03 02 01 00 00 00 00
WrittenValue == 16909060

\* the record of a host call on the MMU
MmuRecord(op, va, access, r, bytes, changed) ==
    [op |-> op, cfg |-> last.cfg, va |-> va, access |-> access,
     exc |-> r.exc, code |-> r.code, pa |-> r.pa, bytes |-> bytes, changed |-> changed]

MmuInit ==
    \E cfg \in IdentityConfigs \cup LeafConfigs :
        /\ rip = Layout.code
        /\ regs = [r \in Range(RegNames64) |-> IF r = "rsp" THEN 1792 ELSE 0]
        /\ flags = [cf |-> 0, zf |-> 0, sf |-> 0, of |-> 0, if |-> 1]
        /\ halted = FALSE
        /\ mode = "long"
        /\ cr0 = {CR0_PE, CR0_PG}
        /\ cr3 = Wide(Layout.tables)
        /\ cr4 = {CR4_PAE}
        /\ efer = {0, EFER_LME}
        /\ idtr = [base |-> Layout.idt, limit |-> 4095]
        /\ operandSizeOverride = FALSE
        /\ addressSizeOverride = FALSE
        /\ mem = Tables(FrameData, cfg)
        /\ interruptQueue = <<>>
        /\ result = "none"
        /\ raised = 0
        /\ delivered = <<>>
        /\ host = HostStart
        /\ last = [op |-> "init", cfg |-> cfg, va |-> -1, access |-> "none",
                   exc |-> "none", code |-> 0, pa |-> -1, bytes |-> <<>>,
                   changed |-> FALSE]

\* cpu.translateVirtualToPhysical(x, 1, accessType)
Translate(x, accessType) ==
    /\ \E t \in {translateVirtualToPhysical(Cur, x, 1, accessType)} :
           last' = MmuRecord("translate", x, accessType, t, <<>>, FALSE)
    /\ UNCHANGED <<rip, regs, flags, halted, mode, cr0, cr3, cr4, efer, idtr,
                   operandSizeOverride, addressSizeOverride, mem, interruptQueue,
                   result, raised, delivered, host>>

\* cpu.readVirtualBigUint64(va)
ReadAt(va) ==
    /\ \E r \in {readVirtualBigUint64(Cur, va)} :
           last' = MmuRecord("read", va, "read", [exc |-> r.exc, code |-> r.code, pa |-> -1],
                             r.bytes, FALSE)
    /\ UNCHANGED <<rip, regs, flags, halted, mode, cr0, cr3, cr4, efer, idtr,
                   operandSizeOverride, addressSizeOverride, mem, interruptQueue,
                   result, raised, delivered, host>>

\* cpu.writeVirtualBigUint64(va, 0x01020304n)
WriteAt(va) ==
    /\ \E w \in {writeVirtualBigUint64(Cur, va, WrittenValue)} :
           /\ mem' = w.mem
           /\ last' = MmuRecord("write", va, "write",
                                [exc |-> w.exc, code |-> w.code, pa |-> -1], <<>>,
                                w.mem # mem)
    /\ UNCHANGED <<rip, regs, flags, halted, mode, cr0, cr3, cr4, efer, idtr,
                   operandSizeOverride, addressSizeOverride, interruptQueue,
                   result, raised, delivered, host>>

MmuNext ==
    \/ \E x \in TranslateProbes, accessType \in {"read", "write"} : Translate(x, accessType)
    \/ \E va \in AccessProbes : ReadAt(va)
    \/ \E va \in AccessProbes : WriteAt(va)

MmuSpec == MmuInit /\ [][MmuNext]_vars

(***************************************************************************)
(* The register file on full 64-bit values: a family of machines whose     *)
(* registers hold BigInt values of any magnitude, on which the host calls  *)
(* writeRegister once                                                      *)
(***************************************************************************)
\* register values: 0, 1, 0x7F, 0x80, 0xFF, 0x8000, 0xFFFF, 0x7FFFFFFF,
\* 0x80000000, 0xFFFFFFFF, 0x123456789, 2^63 - 1, 2^63, 2^64 - 1
WideValues ==
    {{}, {0}, 0..6, {7}, 0..7, {15}, 0..15, 0..30, {31}, 0..31,
     {0, 3, 7, 8, 9, 10, 12, 13, 14, 18, 20, 22, 25, 28, 29, 32},
     0..62, {63}, 0..63}

\* sign-extended 8-bit immediates
Immediates == {-128, -1, 1, 127}

\* (register index, hasRexPrefix) of the written views: al/ax/eax, bl, ah,
\* bh, spl, dil, r8b
ViewChoices == {<<0, FALSE>>, <<3, FALSE>>, <<4, FALSE>>, <<7, FALSE>>,
                <<4, TRUE>>, <<7, TRUE>>, <<8, TRUE>>}

AluRecord(op, sizeBytes, name, high, operand) ==
    [op |-> op, sizeBytes |-> sizeBytes, name |-> name, high |-> high,
     before |-> regs, flagsBefore |-> flags, operand |-> operand,
     index |-> 0, rex |-> FALSE, exc |-> "none"]

AluInit ==
    \E a \in WideValues, b \in WideValues :
        /\ rip = Wide(Layout.code)
        /\ regs = [r \in Range(RegNames64) |->
                      IF r \in {"rax", "rdx", "rsp", "rsi", "r8"} THEN a ELSE b]
        /\ flags = [cf |-> 0, zf |-> 0, sf |-> 0, of |-> 0, if |-> 1]
        /\ halted = FALSE
        /\ mode = "long"
        /\ cr0 = {CR0_PE, CR0_PG}
        /\ cr3 = Wide(Layout.tables)
        /\ cr4 = {CR4_PAE}
        /\ efer = {0, EFER_LME}
        /\ idtr = [base |-> Layout.idt, limit |-> 4095]
        /\ operandSizeOverride = FALSE
        /\ addressSizeOverride = FALSE
        /\ mem = <<>>
        /\ interruptQueue = <<>>
        /\ result = "none"
        /\ raised = 0
        /\ delivered = <<>>
        /\ host = HostStart
        /\ last = [op |-> "init", sizeBytes |-> 0, name |-> "rax", high |-> FALSE,
                   before |-> <<>>, flagsBefore |-> <<>>, operand |-> {},
                   index |-> 0, rex |-> FALSE, exc |-> "none"]

\* writeRegister(getRegisterString(regIndex, sizeBytes, hasRexPrefix), value,
\* sizeBytes)
WriteSubView(regIndex, hasRexPrefix, value, sizeBytes) ==
    /\ last.op = "init"
    /\ regs' = [regs EXCEPT ![RegView(regIndex, sizeBytes, hasRexPrefix).name] =
                   writeRegisterWide(@, value,
                                     RegView(regIndex, sizeBytes, hasRexPrefix).high,
                                     sizeBytes)]
    /\ last' = [AluRecord("write", sizeBytes,
                          RegView(regIndex, sizeBytes, hasRexPrefix).name,
                          RegView(regIndex, sizeBytes, hasRexPrefix).high, value)
                    EXCEPT !.index = regIndex, !.rex = hasRexPrefix]
    /\ UNCHANGED <<rip, flags, halted, mode, cr0, cr3, cr4, efer, idtr,
                   operandSizeOverride, addressSizeOverride, mem, interruptQueue,
                   result, raised, delivered, host>>

AluNext ==
    \E c \in ViewChoices, value \in {{}, 0..63, {0, 7, 8, 15, 31, 32, 63}},
       sizeBytes \in {1, 2, 4, 8} :
        WriteSubView(c[1], c[2], value, sizeBytes)

AluSpec == AluInit /\ [][AluNext]_vars

(***************************************************************************)
(* Instructions on full 64-bit values: guest programs of one or two        *)
(* instructions in long mode on the identity-mapped tables, stepped with   *)
(* registers and RIP that hold BigInt values of any magnitude              *)
(***************************************************************************)
\* the prefix bytes that give an instruction the operand size sizeBytes in
\* long mode: 0x66 for 2, REX.W for 8
SizePrefix(sizeBytes) ==
    IF sizeBytes = 2 THEN <<102>> ELSE IF sizeBytes = 8 THEN <<72>> ELSE <<>>

\* ADD, SUB and CMP RAX, RBX (01, 29, 39 with ModRM D8) at 2, 4 and 8 bytes,
\* and CMP AL, BL (38 D8)
ArithPrograms ==
    {SizePrefix(n) \o <<opcode, 216>> : opcode \in {1, 41, 57}, n \in {2, 4, 8}}
    \cup {<<56, 216>>}

\* ADD, SUB and CMP RAX, imm8 (83 /0, /5, /7) at 2, 4 and 8 bytes
ImmediatePrograms ==
    {SizePrefix(n) \o <<131, 192 + 8 * reg, imm % 256>> :
        reg \in {0, 5, 7}, imm \in Immediates, n \in {2, 4, 8}}

\* displacement bytes of the branches: 0, 5, 127, -128, -2, -1, and 5,
\* 2^31 - 1, -2^31, -16
Displacements ==
    {<<0>>, <<5>>, <<127>>, <<128>>, <<254>>, <<255>>,
     <<5, 0, 0, 0>>, <<255, 255, 255, 127>>, <<0, 0, 0, 128>>, <<240, 255, 255, 255>>}

\* JE, JNE, JL, JB and JMP rel8, JE and JNE rel32 (0F 84, 0F 85), CALL rel32
BranchPrograms ==
    {<<opcode>> \o w : opcode \in {116, 117, 124, 114, 235},
                       w \in {d \in Displacements : Len(d) = 1}}
    \cup {<<15, opcode>> \o w : opcode \in {132, 133},
                                w \in {d \in Displacements : Len(d) = 4}}
    \cup {<<232>> \o w : w \in {d \in Displacements : Len(d) = 4}}

\* CMP RAX, RBX and then a branch
CompareBranchPrograms == {<<72, 57, 216>> \o branch : branch \in BranchPrograms}

\* immediate bytes of MOV reg, imm: imm8 0xFF, imm16 0x1234 and 0x8000,
\* imm32 5 and 0x80000000, imm64 1, 0x7FFFFFFF, 0x80000000,
\* 0x1234567812345678, 0x0123456789ABCDEF and 2^63
MovImmediates ==
    {<<255>>, <<52, 18>>, <<0, 128>>, <<5, 0, 0, 0>>, <<0, 0, 0, 128>>,
     <<1, 0, 0, 0, 0, 0, 0, 0>>, <<255, 255, 255, 127, 0, 0, 0, 0>>,
     <<0, 0, 0, 128, 0, 0, 0, 0>>, <<120, 86, 52, 18, 120, 86, 52, 18>>,
     <<239, 205, 171, 137, 103, 69, 35, 1>>, <<0, 0, 0, 0, 0, 0, 0, 128>>}

\* MOV reg, imm to register 0, 3 or 7: B0+r with imm8, B8+r with imm32, with
\* imm16 behind 0x66 and with imm64 behind REX.W
MovPrograms ==
    {SizePrefix(Len(w)) \o <<(IF Len(w) = 1 THEN 176 ELSE 184) + destRegIdx>> \o w :
        destRegIdx \in {0, 3, 7}, w \in MovImmediates}

\* WRMSR and then RDMSR
MsrPrograms == {<<15, 48, 15, 50>>}

\* the address 0xC0000080 of the EFER MSR, as a set of bits
MSR_EFER == {7, 30, 31}

\* MSR addresses the host loads into RCX: EFER, EFER with bit 32 of RCX set,
\* and 0x10
MsrAddresses == {MSR_EFER, MSR_EFER \cup {32}, {4}}

\* register values around a comparison and around a MOV
CompareValues == {{}, {0}, 0..62, {63}, 0..63}
MovValues == {{}, 0..63}

\* the values the host gives the registers: a for RAX, RDX, RSI and R8, c
\* for RCX, b for the others
WideRegs(a, b, c) == [a |-> a, b |-> b, c |-> c]

\* arithmetic runs on every pair of register values, the branches on the
\* flags of the constructor and on those of a comparison, MOV over a clear
\* and a set register, WRMSR and RDMSR with every value of RAX and RDX
RegistersFor(code) ==
    IF code \in ArithPrograms \cup ImmediatePrograms
    THEN {WideRegs(a, b, b) : a \in WideValues, b \in WideValues}
    ELSE IF code \in BranchPrograms THEN {WideRegs({}, {}, {})}
    ELSE IF code \in CompareBranchPrograms
    THEN {WideRegs(a, b, b) : a \in CompareValues, b \in CompareValues}
    ELSE IF code \in MovPrograms
    THEN {WideRegs(a, b, b) : a \in MovValues, b \in MovValues}
    ELSE {WideRegs(a, {}, c) : a \in WideValues, c \in MsrAddresses}

WidePrograms ==
    ArithPrograms \cup ImmediatePrograms \cup BranchPrograms \cup CompareBranchPrograms
    \cup MovPrograms \cup MsrPrograms

\* the host loads the program and the handlers, maps the first pages to
\* themselves and sets the registers: RSP to the stack of the image
WideInit ==
    \E code \in WidePrograms :
      \E image \in {Paged(ProgramImage(code, {}), "pt")}, given \in RegistersFor(code) :
        \E a \in {given.a}, b \in {given.b}, c \in {given.c} :
            /\ rip = Wide(Layout.code)
            /\ regs = [r \in Range(RegNames64) |->
                          IF r = "rsp" THEN Wide(1792)
                          ELSE IF r = "rcx" THEN c
                          ELSE IF r \in {"rax", "rdx", "rsi", "r8"} THEN a ELSE b]
            /\ flags = [cf |-> 0, zf |-> 0, sf |-> 0, of |-> 0, if |-> 1]
            /\ halted = FALSE
            /\ mode = "long"
            /\ cr0 = {CR0_PE, CR0_PG}
            /\ cr3 = Wide(Layout.tables)
            /\ cr4 = {CR4_PAE}
            /\ efer = {0, EFER_LME}
            /\ idtr = [base |-> Layout.idt, limit |-> 4095]
            /\ operandSizeOverride = FALSE
            /\ addressSizeOverride = FALSE
            /\ mem = image
            /\ interruptQueue = <<>>
            /\ result = "none"
            /\ raised = 0
            /\ delivered = <<>>
            /\ host = HostStart
            /\ last = [op |-> "init", sizeBytes |-> 0, name |-> "rax", high |-> FALSE,
                       before |-> <<>>, flagsBefore |-> <<>>, operand |-> {},
                       index |-> 0, rex |-> FALSE, exc |-> "none"]

\* the run loop calls step() on a machine that delivers no vector (IF is
\* clear or the queue is empty: a queued vector then stays queued) and is
\* not halted, with RIP at an address of the memory
Steps ==
    /\ ~host.ended
    /\ ~(flags.if = 1 /\ interruptQueue # <<>>)
    /\ ~halted
    /\ rip \subseteq (0..30)

\* what the prefix loop of step() decodes at RIP, after the two override
\* fields are cleared
Decoded ==
    PrefixLoop([Cur EXCEPT !.rip = NumberFrom(rip, 0), !.osz = FALSE, !.asz = FALSE],
               NoPrefix)

\* n more calls of readInstructionByte, up to the first that throws
RECURSIVE FetchBytes(_, _, _)
FetchedByte(r, n, acc) ==
    IF r.s.exc # "none" THEN [s |-> r.s, bytes |-> acc]
    ELSE FetchBytes(r.s, n - 1, Append(acc, r.byte))

FetchBytes(s, n, acc) ==
    IF n = 0 THEN [s |-> s, bytes |-> acc]
    ELSE FetchedByte(readInstructionByte(s), n, acc)

\* the end of a step() that fetched its last byte in f without a throw and
\* returns true, and of the turn of the run loop: the override fields are
\* as the prefix loop left them, and the loop ends once cpu.rip >= MEM_SIZE
Stepped(f, newRip, newRegs, newFlags, newEfer, newMode, newMem, record) ==
    /\ f.exc = "none"
    /\ rip' = newRip
    /\ regs' = newRegs
    /\ flags' = newFlags
    /\ efer' = newEfer
    /\ mode' = newMode
    /\ mem' = newMem
    /\ operandSizeOverride' = f.osz
    /\ addressSizeOverride' = f.asz
    /\ result' = "true"
    /\ host' = [host EXCEPT !.ended = ~Less(newRip, Wide(MemSize))]
    /\ last' = record
    /\ UNCHANGED <<halted, cr0, cr3, cr4, idtr, interruptQueue, raised, delivered>>

\* a step at ADD, SUB or CMP r/m, r (01, 29, 39, and 38 for CMP r/m8, r8)
\* with the ModRM byte D8: RBX is added to, subtracted from or compared
\* with RAX at the operand size
RegisterArith ==
    /\ Steps
    /\ \E d \in {Decoded} :
        /\ d.s.exc = "none"
        /\ d.opcode \in {1, 41, 57, 56}
        /\ d.pfx.rex_r = 0 /\ d.pfx.rex_b = 0
        /\ \E m \in {readInstructionByte(d.s)},
              sizeBytes \in {IF d.opcode = 56 THEN 1 ELSE DefaultOperandSize(d.s, d.pfx)} :
            /\ m.byte = 216
            /\ \E a \in {Arith(flags, readRegisterWide(regs["rax"], FALSE, sizeBytes),
                               readRegisterWide(regs["rbx"], FALSE, sizeBytes), sizeBytes,
                               IF d.opcode = 1 THEN "add" ELSE "sub")} :
                Stepped(m.s, Wide(m.s.rip),
                        IF d.opcode \in {1, 41}
                        THEN [regs EXCEPT !["rax"] =
                                 writeRegisterWide(@, a.res, FALSE, sizeBytes)]
                        ELSE regs,
                        a.flags, efer, mode, mem,
                        AluRecord(IF d.opcode = 1 THEN "add"
                                  ELSE IF d.opcode = 41 THEN "sub" ELSE "cmp",
                                  sizeBytes, "rax", FALSE,
                                  readRegisterWide(regs["rbx"], FALSE, sizeBytes)))

\* a step at the group 83 with a register operand: ADD (/0), SUB (/5) or
\* CMP (/7) of the sign-extended imm8 to, from or with RAX
ImmediateArith ==
    /\ Steps
    /\ \E d \in {Decoded} :
        /\ d.s.exc = "none"
        /\ d.opcode = 131
        /\ d.pfx.rex_b = 0
        /\ \E m \in {readInstructionByte(d.s)}, sizeBytes \in {DefaultOperandSize(d.s, d.pfx)} :
            /\ m.s.exc = "none"
            /\ ModRMOf(m.byte).mod = 3 /\ ModRMOf(m.byte).rm = 0
            /\ ModRMOf(m.byte).reg \in {0, 5, 7}
            /\ \E i \in {readSignedImmediate(m.s, 1)} :
                \E a \in {Group1Result(flags, readRegisterWide(regs["rax"], FALSE, sizeBytes),
                                       Wide(i.value), ModRMOf(m.byte).reg, sizeBytes)} :
                    Stepped(i.s, Wide(i.s.rip),
                            IF ModRMOf(m.byte).reg # 7
                            THEN [regs EXCEPT !["rax"] =
                                     writeRegisterWide(@, a.res, FALSE, sizeBytes)]
                            ELSE regs,
                            a.flags, efer, mode, mem,
                            AluRecord(IF ModRMOf(m.byte).reg = 0 THEN "addi"
                                      ELSE IF ModRMOf(m.byte).reg = 5 THEN "subi" ELSE "cmpi",
                                      sizeBytes, "rax", FALSE, Wide(i.value)))

\* the condition of a branch on the flags f: JE (74, 0F 84) ZF = 1, JNE (75,
\* 0F 85) ZF = 0, JL (7C) SF # OF, JB (72) CF # 0, JMP (EB) and CALL (E8)
\* always
BranchCondition(opcode, f) ==
    IF opcode = 116 \/ opcode = 3840 + 132 THEN f.zf = 1
    ELSE IF opcode = 117 \/ opcode = 3840 + 133 THEN f.zf = 0
    ELSE IF opcode = 124 THEN f.sf # f.of
    ELSE IF opcode = 114 THEN f.cf # 0
    ELSE TRUE

\* the opcode of a branch the prefix loop decoded (d), with the second byte
\* of a two-byte opcode fetched (t): 0x0F00 + byte for 0F 84 and 0F 85
BranchOpcode(d, t) == IF d.opcode = 15 THEN 3840 + t.byte ELSE d.opcode

\* a step at Jcc rel8, JMP rel8, Jcc rel32 or CALL rel32: the displacement
\* bytes are fetched, then this.rip += displacement when the condition
\* holds; CALL pushes retAddr = currentRIPBeforeFetch + 5 at RSP - 8 and
\* sets RIP to retAddr + displacement
RelativeBranch ==
    /\ Steps
    /\ \E d \in {Decoded} :
        /\ d.s.exc = "none"
        /\ d.opcode \in {116, 117, 124, 114, 235, 232, 15}
        /\ \E t \in {IF d.opcode = 15 THEN readInstructionByte(d.s)
                     ELSE [s |-> d.s, byte |-> d.opcode]} :
            /\ t.s.exc = "none"
            /\ d.opcode = 15 => t.byte \in {132, 133}
            /\ \E w \in {FetchBytes(t.s, IF d.opcode \in {15, 232} THEN 4 ELSE 1, <<>>)} :
                /\ w.s.exc = "none"
                /\ IF d.opcode = 232
                   THEN \E retAddr \in {Plus(rip, Wide(5))},
                           newRsp \in {Minus(regs["rsp"], Wide(8))} :
                        \E pushed \in {writeVirtualBigUint64(w.s, Num(newRsp),
                                                             NumberFrom(rip, 0) + 5)} :
                            Stepped(pushed,
                                    Plus(retAddr, readSignedImmediateWide(w.bytes)),
                                    [regs EXCEPT !["rsp"] = newRsp],
                                    flags, efer, mode, pushed.mem,
                                    [AluRecord("branch", 4, "rax", FALSE, BytesWide(w.bytes))
                                         EXCEPT !.index = 232])
                   ELSE Stepped(w.s,
                                IF BranchCondition(BranchOpcode(d, t), flags)
                                THEN Plus(Wide(w.s.rip), readSignedImmediateWide(w.bytes))
                                ELSE Wide(w.s.rip),
                                regs, flags, efer, mode, mem,
                                [AluRecord("branch", Len(w.bytes), "rax", FALSE,
                                           BytesWide(w.bytes))
                                     EXCEPT !.index = BranchOpcode(d, t)])

\* the operand size of MOV reg, imm decoded as d: a byte for B0..B7; in long
\* mode 8 with REX.W, 2 with 0x66, else 4; in the other modes 4 with 0x66,
\* else 2
MovImmediateSize(d) ==
    IF d.opcode < 184 THEN 1
    ELSE IF d.s.mode = "long"
    THEN (IF d.pfx.rex_w = 1 THEN 8 ELSE IF d.s.osz THEN 2 ELSE 4)
    ELSE (IF d.s.osz THEN 4 ELSE 2)

\* a step at MOV reg, imm (B0..BF): the immediate is fetched and written to
\* the register that opcode & 7 and REX.B name
MovImmediate ==
    /\ Steps
    /\ \E d \in {Decoded} :
        /\ d.s.exc = "none"
        /\ d.opcode \in 176..191
        /\ \E w \in {FetchBytes(d.s, MovImmediateSize(d), <<>>)},
              view \in {RegView((d.opcode % 8) + 8 * d.pfx.rex_b, MovImmediateSize(d),
                                d.pfx.rexPrefix # 0)} :
            /\ w.s.exc = "none"
            /\ Stepped(w.s, Wide(w.s.rip),
                       [regs EXCEPT ![view.name] =
                           writeRegisterWide(@, readSignedImmediateWide(w.bytes),
                                             view.high, Len(w.bytes))],
                       flags, efer, mode, mem,
                       [AluRecord("mov", Len(w.bytes), view.name, view.high,
                                  BytesWide(w.bytes))
                            EXCEPT !.index = (d.opcode % 8) + 8 * d.pfx.rex_b,
                                   !.rex = (d.pfx.rexPrefix # 0)])

\* a step at WRMSR (0F 30): the value is (RDX << 32) | (RAX & 0xFFFFFFFF),
\* stored in EFER when RCX is 0xC0000080 (RDX is below 2^(WideBits - 32), so
\* that the shift stays in the window)
WriteMsrWide ==
    /\ Steps
    /\ regs["rdx"] \subseteq 0..(WideBits - 33)
    /\ \E d \in {Decoded} :
        /\ d.s.exc = "none"
        /\ d.opcode = 15
        /\ \E t \in {readInstructionByte(d.s)},
              msrAddr \in {readRegisterWide(regs["rcx"], FALSE, 8)},
              value \in {{b + 32 : b \in readRegisterWide(regs["rdx"], FALSE, 8)}
                            \cup (readRegisterWide(regs["rax"], FALSE, 8) \cap BitMask(4))} :
            /\ t.byte = 48
            /\ Stepped(t.s, Wide(t.s.rip), regs, flags,
                       IF msrAddr = MSR_EFER THEN value ELSE efer,
                       IF msrAddr = MSR_EFER
                       THEN updateCPUMode([mode |-> mode, cr0 |-> cr0, cr4 |-> cr4,
                                           efer |-> value]).mode
                       ELSE mode,
                       mem, AluRecord("wrmsr", 4, "rcx", FALSE, msrAddr))

\* a step at RDMSR (0F 32): EFER when ECX is 0xC0000080, else 0, is written
\* to EDX:EAX
ReadMsrWide ==
    /\ Steps
    /\ \E d \in {Decoded} :
        /\ d.s.exc = "none"
        /\ d.opcode = 15
        /\ \E t \in {readInstructionByte(d.s)},
              valueToRead \in {IF readRegisterWide(regs["rcx"], FALSE, 4) = MSR_EFER
                                THEN efer ELSE {}} :
            /\ t.byte = 50
            /\ Stepped(t.s, Wide(t.s.rip),
                       [regs EXCEPT
                          !["rax"] = writeRegisterWide(@, valueToRead \cap BitMask(4),
                                                       FALSE, 4),
                          !["rdx"] = writeRegisterWide(@, {b - 32 : b \in valueToRead \ BitMask(4)},
                                                       FALSE, 4)],
                       flags, efer, mode, mem,
                       AluRecord("rdmsr", 4, "rcx", FALSE,
                                 readRegisterWide(regs["rcx"], FALSE, 4)))

WideNext ==
    \/ RegisterArith
    \/ ImmediateArith
    \/ RelativeBranch
    \/ MovImmediate
    \/ WriteMsrWide
    \/ ReadMsrWide

WideSpec == WideInit /\ [][WideNext]_vars

(***************************************************************************)
(* Observations the claims are stated on                                   *)
(***************************************************************************)
\* the 8-byte stack slot k slots above address a, read from physical memory
\* (the stack pages of every machine of Init are mapped to themselves)
SlotAt(a, k) == Val(MemRead(mem, a + 8 * k, 8).bytes)

\* the last host call was a step that took a vector from the queue and
\* delivered it without an error
QueuedDelivery == last.op = "step" /\ last.irq # -1 /\ last.irqOk

\* C1: a step that begins with IF=1 and a non-empty queue delivers the head
\* vector and does nothing more: on return RIP is the gate's handler offset
\* and no instruction has been executed.
C1_DeliveryIsTheWholeStep ==
    (QueuedDelivery /\ result # "throw")
        => (rip = last.handler /\ last.opcode = -1)

\* the last host call was a step in which a page fault was caught and
\* vector 14 was delivered for it
PageFaultDelivered == last.op = "step" /\ last.fault # -1 /\ result = "true"

\* where the instruction that the last step decoded starts
InstructionStart == IF QueuedDelivery THEN last.handler ELSE last.preRip

\* C2: when an instruction page-faults, the #PF frame holds the address at
\* which that instruction starts as saved RIP, the fault's error code and
\* vector 14, and step returns Running.
C2_FaultFrameHoldsFaultingRip ==
    PageFaultDelivered
        => /\ SlotAt(regs["rsp"], 2) = InstructionStart
           /\ SlotAt(regs["rsp"], 1) = last.fault
           /\ SlotAt(regs["rsp"], 0) = 14

\* C3: no PageFault raised by the MMU ever propagates out of step() to the
\* host, also when it is raised while a queued interrupt is being delivered.
C3_PageFaultNeverEscapes ==
    ~(last.op = "step" /\ result = "throw" /\ last.exc = "PageFault")

\* the number of 8-byte slots the queued delivery of the last step pushed
QueuedSlots == (last.preRsp - last.irqRsp) \div 8

\* the slots a frame of n slots must hold above its top at address a
FrameHolds(a, n, vector, savedFlags, savedRip) ==
    /\ SlotAt(a, 0) = vector
    /\ SlotAt(a, n - 3) = savedRip
    /\ SlotAt(a, n - 2) = Layout.selector
    /\ SlotAt(a, n - 1) = assembleRFlags(savedFlags)

\* C4: a delivery of vector v pushes RFLAGS, the selector, RIP, an error-code
\* slot if and only if v is one of 8, 10..14, 17, then v; for synchronous
\* delivery and for vectors taken from the queue alike.
C4_FrameHasErrorSlotByVector ==
    /\ QueuedDelivery
        => /\ QueuedSlots = 4 + (IF last.irq \in ErrorCodeVectors THEN 1 ELSE 0)
           /\ FrameHolds(last.irqRsp, QueuedSlots, last.irq, last.preFlags, last.preRip)
    /\ (PageFaultDelivered /\ ~QueuedDelivery)
        => /\ SlotAt(regs["rsp"], 1) = last.fault
           /\ FrameHolds(regs["rsp"], 5, 14, last.preFlags, last.preRip)

\* the raise numbers of the vectors still queued, head first
QueueIds == [i \in DOMAIN interruptQueue |-> interruptQueue[i].id]

StrictlyIncreasing(ids) ==
    \A i, j \in DOMAIN ids : i < j => ids[i] < ids[j]

\* C5: queued interrupts are delivered in the order they were raised: the
\* deliveries so far, one per step, followed by what is still queued, are in
\* raise order, so no vector is delivered before one that was raised earlier
\* and is still waiting.
C5_DeliveredInRaiseOrder == StrictlyIncreasing(delivered \o QueueIds)

\* a step took the first-raised of two queued vectors and left the second
C5_Witness ==
    /\ QueuedDelivery
    /\ Len(last.preQueue) = 2
    /\ delivered = <<last.preQueue[1].id>>
    /\ QueueIds = <<last.preQueue[2].id>>

\* C6: a step that begins with IF=0 delivers no queued interrupt and removes
\* nothing from the queue, and a raise while IF=0 keeps what is queued and
\* appends behind it, so the vectors are still queued in raise order when IF
\* becomes 1.
C6_NoDeliveryWhileIFClear ==
    [][flags.if = 0 =>
          /\ delivered' = delivered
          /\ IF last'.op = "step"
             THEN interruptQueue' = interruptQueue /\ last'.irq = -1
             ELSE /\ Len(interruptQueue') = Len(interruptQueue) + 1
                  /\ SubSeq(interruptQueue', 1, Len(interruptQueue)) = interruptQueue
                  /\ interruptQueue'[Len(interruptQueue')].id = raised']_vars

\* the step that set IF again found two vectors raised while IF=0 still
\* queued, in raise order
C6_Witness ==
    /\ last.op = "step"
    /\ last.preFlags.if = 0
    /\ flags.if = 1
    /\ Len(interruptQueue) = 2
    /\ interruptQueue = last.preQueue
    /\ QueueIds = <<1, 2>>

\* C7: raise_interrupt never delivers: it appends the vector to the tail of
\* the queue and changes no register, flag, memory byte or the halted state;
\* deliveries happen only in step.
C7_RaiseOnlyAppends ==
    [][/\ last'.op = "raise" =>
             /\ Len(interruptQueue') = Len(interruptQueue) + 1
             /\ SubSeq(interruptQueue', 1, Len(interruptQueue)) = interruptQueue
             /\ interruptQueue'[Len(interruptQueue')].vec \in RaiseVectors
             /\ UNCHANGED <<rip, regs, flags, halted, mem, mode, cr0, cr3, cr4,
                            efer, idtr, delivered>>
       /\ delivered' # delivered => last'.op = "step"]_vars

\* a vector was raised while IF=1 on a running machine and is waiting
C7_Witness ==
    /\ last.op = "raise"
    /\ flags.if = 1
    /\ ~halted
    /\ Len(interruptQueue) >= 1
    /\ delivered = <<>>

\* C8: when the CPU is halted with IF=1 and vector 32 is raised, the next
\* step delivers vector 32 and leaves halted=false.
C8_InterruptEndsHalt ==
    (last.op = "step" /\ last.preHalted /\ last.preFlags.if = 1
        /\ last.preQueue # <<>> /\ last.preQueue[1].vec = 32 /\ result # "throw")
        => (last.irq = 32 /\ last.irqOk /\ ~halted)

\* C9: a step taken while the CPU is halted and the queue is empty returns a
\* result that differs from the result of a step that ran, and changes no
\* CPU or memory state.
C9_HaltedStepReturnsHalted ==
    [][(last'.op = "step" /\ halted /\ interruptQueue = <<>>) =>
          /\ result' # "true"
          /\ UNCHANGED <<rip, regs, flags, halted, mem, mode, cr0, cr3, cr4,
                         efer, idtr, interruptQueue>>]_vars

\* C10: with a present gate at vector 14 pointing to H, a step whose
\* instruction accesses an unmapped address ends with RIP = H and RSP exactly
\* 40 bytes below its value before the step.
C10_FaultingStepPushesFortyBytes ==
    (PageFaultDelivered /\ HandlerOf(Cur, 14) # -1)
        => /\ rip = HandlerOf(Cur, 14)
           /\ regs["rsp"] = last.preRsp - 40

\* the last host call was a step that met bytes step() has no handler for
UndecodableStep ==
    /\ last.op = "step"
    /\ last.exc = "none"
    /\ \/ (last.opcode \in 0..255 /\ last.opcode \notin OneByteHandled)
       \/ (last.opcode >= 3840 /\ last.opcode - 3840 \notin TwoByteHandled)

\* C11: when the bytes at RIP do not decode to a supported instruction, step
\* returns the failure result and RIP is the same as before the step began.
C11_UndecodableLeavesRip ==
    UndecodableStep => (result = "false" /\ rip = last.preRip)

\* the low slice of a gate was read and its Present bit is 0
AbsentIn(lowSlice) == lowSlice.exc = "none" /\ ~GatePresent(lowSlice.bytes)

\* the gate of a vector has Present = 0 in the IDT of machine s
GateAbsent(s, vector) ==
    AbsentIn(readVirtualBigUint64(s, s.idtr.base + vector * 16))

\* a delivery attempt (a) on the current machine ended in the double-fault
\* error and left RIP, the registers and memory alone
FailedUntouched(a) ==
    a.exc = "DoubleFault" /\ a.rip = rip /\ a.regs = regs /\ a.mem = mem

\* from the current machine, the delivery of every vector whose gate is
\* absent fails and pushes nothing
AbsentGatesRefuse ==
    \A v \in {13, 14, 32} :
        GateAbsent(Cur, v) => FailedUntouched(triggerInterrupt(Cur, v, 0))

\* C12: when the gate of the vector being delivered has Present = 0, the
\* delivery fails with the fatal double-fault error, which propagates out of
\* step; the failed delivery pushes nothing: RSP, RIP and stack memory are as
\* before the delivery attempt.  Stated for the delivery of a queued vector,
\* for the delivery of a caught page fault, and for a delivery attempted
\* from any machine that is reached.
C12_AbsentGateIsFatal ==
    /\ []AbsentGatesRefuse
    /\ [][/\ (last'.op = "step" /\ last'.irq # -1 /\ GateAbsent(Cur, last'.irq))
               => /\ result' = "throw" /\ last'.exc = "DoubleFault"
                  /\ rip' = rip /\ regs' = regs /\ mem' = mem
          /\ (last'.op = "step" /\ last'.irq = -1 /\ last'.fault # -1
                /\ GateAbsent(Cur, 14))
               => /\ result' = "throw" /\ last'.exc = "DoubleFault"
                  /\ rip' = rip /\ mem' = mem]_vars

\* a step caught a page fault and the delivery of vector 14 failed
C12_Witness ==
    last.op = "step" /\ last.fault # -1 /\ last.exc = "DoubleFault" /\ result = "throw"

\* a translation (t) went through and the n bytes at its physical address
\* are not all inside the memory buffer
OutsideBuffer(t, n) == t.exc = "none" /\ (t.pa < 0 \/ t.pa + (n - 1) >= MemSize)

\* the byte LODSB reads in machine s is outside the memory buffer
LodsbOutside(s) ==
    OutsideBuffer(translateVirtualToPhysical(s, s.regs["rsi"], 1, "read"), 1)

\* the slot PUSH RAX writes in machine s is outside the memory buffer
PushOutside(s) ==
    OutsideBuffer(translateVirtualToPhysical(s, s.regs["rsp"] - StackOperandSize(s, NoPrefix),
                                             StackOperandSize(s, NoPrefix), "write"),
                  StackOperandSize(s, NoPrefix))

\* C13: a physical access outside the memory buffer after translation raises
\* a fatal error that propagates out of step; it is never turned into a page
\* fault: no vector-14 frame is pushed and RIP is not redirected to the #PF
\* handler.
C13_OutOfBufferIsFatal ==
    [][(/\ last'.op = "step" /\ last'.irq = -1
        /\ \/ (last'.opcode = 172 /\ LodsbOutside(Cur))
           \/ (last'.opcode = 80 /\ PushOutside(Cur)))
          => /\ result' = "throw"
             /\ last'.exc \notin {"none", "PageFault"}
             /\ last'.fault = -1
             /\ mem' = mem
             /\ rip' # HandlerOf(Cur, 14)]_vars

\* a LODSB read past the end of the buffer and the step threw
C13_Witness ==
    last.op = "step" /\ last.opcode = 172 /\ last.exc = "MemoryAccessViolation"
    /\ result = "throw"

\* C14: after every step the mode field equals the value computed from
\* (CR0.PE, CR0.PG, CR4.PAE, EFER.LME): Real when PE = 0, Long exactly when
\* all four are set; no sequence of MOV CRn and WRMSR leaves it stale.
C14_ModeFollowsControlBits ==
    /\ (CR0_PE \notin cr0) => mode = "real"
    /\ mode = "long" <=> (/\ CR0_PE \in cr0 /\ CR0_PG \in cr0
                          /\ CR4_PAE \in cr4 /\ EFER_LME \in efer)
    /\ (CR0_PE \in cr0) => mode # "real"

\* a machine that started in real mode was taken to long mode by MOV CR0,
\* MOV CR4 and WRMSR
C14_Witness ==
    /\ last.op = "wrmsr" /\ result = "true" /\ last.preRip = Layout.code + 6
    /\ mode = "long" /\ cr3 = {}

\* the eight bytes written at last.va lie in a page whose leaf has R/W = 0
WriteToReadOnlyLeaf ==
    /\ last.op = "write"
    /\ last.cfg.kind \in {"leaf4k", "leaf2m", "leaf1g"}
    /\ ~last.cfg.writable
    /\ last.va >= PAGE_SIZE /\ last.va + 8 <= 2 * PAGE_SIZE

\* C15: in Long mode a Write to an address whose leaf entry has R/W = 0
\* raises PageFault(1) and modifies no memory, whether the leaf is a 4 KiB
\* PTE, a 2 MiB PDE with PS = 1 or a 1 GiB PDPTE with PS = 1.
C15_ReadOnlyLeafFaults ==
    WriteToReadOnlyLeaf
        => (last.exc = "PageFault" /\ last.code = 1 /\ ~last.changed)

\* the translation of byte i of the access at last.va, taken on its own
ByteTranslation(i) == translateVirtualToPhysical(Cur, last.va + i, 1, last.access)

\* the access at last.va reaches into the next 4 KiB page
Straddles == (last.va % PAGE_SIZE) + 8 > PAGE_SIZE

\* byte i of the access is where its own page's frame has it
ByteInItsFrame(t, i) ==
    IF last.op = "read" THEN last.bytes[i + 1] = Rd(mem, t.pa)
    ELSE Rd(mem, t.pa) = ByteOf(WrittenValue, i)

\* C16: a multi-byte access that straddles a 4 KiB page boundary is
\* translated page by page: the bytes in the second page go to that page's
\* own frame, and the access faults if the second page is not present or,
\* for a write, is read-only.
C16_StraddlingAccessIsPagewise ==
    (last.op \in {"read", "write"} /\ Straddles)
        => IF \E i \in 0..7 : ByteTranslation(i).exc = "PageFault"
           THEN last.exc = "PageFault" /\ ~last.changed
           ELSE \A i \in 0..7 : ByteInItsFrame(ByteTranslation(i), i)

\* C17: after setup_identity_paging(memory, vstart, pstart, size,
\* tables_base) with size a multiple of 4 KiB, every address x in
\* [vstart, vstart + size) translates in Long mode to pstart + (x - vstart)
\* for reads and for writes, for every 4 KiB-aligned vstart and every size.
C17_IdentityPagingMapsRegion ==
    (/\ last.op = "translate" /\ last.cfg.kind = "identity"
     /\ last.va >= last.cfg.vstart /\ last.va < last.cfg.vstart + last.cfg.size)
        => (last.exc = "none" /\ last.pa = last.cfg.pstart + (last.va - last.cfg.vstart))

\* the last step, taken with no queued delivery, ran a handler to its end or
\* to an error that is not a memory error
RanInstruction ==
    /\ last.op = "step" /\ last.irq = -1 /\ last.fault = -1
    /\ last.exc \in {"none", "ReferenceError"}

\* opcodes of PUSH reg, PUSH r/m (FF /6 in the guest programs) and CALL
PushingOpcodes == (80..87) \cup {255, 232}

\* opcodes of POP reg other than POP RSP, POP r/m (8F /0) and RET
PoppingOpcodes == ((88..95) \ {92}) \cup {143, 195}

\* the bytes of memory that differ between two memories
ChangedBytes(m1, m2) ==
    {a \in DOMAIN m1 \cup DOMAIN m2 : Rd(m1, a) # Rd(m2, a)}

\* C18: in Long mode every PUSH (register and r/m form), POP, CALL and RET
\* moves RSP by exactly 8 and transfers exactly 8 bytes, whatever the
\* operand size: a push writes only inside the 8-byte slot below the old
\* RSP, a pop writes no memory.
C18_StackSlotIsEightBytes ==
    [][(mode = "long" /\ RanInstruction')
         => /\ (last'.opcode \in PushingOpcodes)
                => /\ regs'["rsp"] = regs["rsp"] - 8
                   /\ ChangedBytes(mem, mem') \subseteq (regs["rsp"] - 8)..(regs["rsp"] - 1)
            /\ (last'.opcode \in PoppingOpcodes)
                => /\ regs'["rsp"] = regs["rsp"] + 8
                   /\ mem' = mem]_vars

\* the bytes of the guest program at Layout.code
ProgramAt(n) == [i \in 1..n |-> Rd(mem, Layout.code + i - 1)]

\* the guest program ran from its first byte to its HLT with no interrupt
RanToHalt(n) ==
    /\ last.op = "step" /\ last.opcode = 244 /\ result = "true"
    /\ raised = 0 /\ halted /\ rip = Layout.code + n

\* C19: for any two general-purpose registers r1 and r2, the sequence
\* PUSH r1; PUSH r2; POP r2; POP r1 leaves r1 and r2 holding their original
\* values and RSP at its starting value.
C19_PushPopRoundTrip ==
    (mode = "long" /\ ProgramAt(5) \in PushPopPrograms /\ RanToHalt(5))
        => (regs["rax"] = 4369 /\ regs["rbx"] = 8738 /\ regs["rsp"] = 1792)

\* the number of prefix bytes (66, 67, REX) from address a on
RECURSIVE PrefixCount(_)
PrefixCount(a) ==
    IF Rd(mem, a) \in {102, 103} \cup (64..79) THEN 1 + PrefixCount(a + 1) ELSE 0

\* where the CALL of the guest program starts: after the leading NOP if
\* there is one
CallSite == Layout.code + (IF Rd(mem, Layout.code) = 144 THEN 1 ELSE 0)

\* the first byte after the whole CALL instruction
AfterCall == CallSite + PrefixCount(CallSite) + 5

\* C20: CALL rel32 pushes the address of the first byte after the complete
\* CALL instruction, any prefixes included; a RET executed as the callee's
\* only instruction returns RIP to that address with RSP equal to its
\* pre-CALL value.
C20_CallPushesNextInstruction ==
    (ProgramAt(9) \in CallPrograms /\ RanInstruction /\ last.exc = "none" /\ raised = 0)
        => /\ (last.opcode = 232 /\ last.preRip = CallSite)
                => SlotAt(regs["rsp"], 0) = AfterCall
           /\ (last.opcode = 195 /\ last.preRsp = 1792 - 8)
                => (rip = AfterCall /\ regs["rsp"] = 1792)

\* the last operation was the 64-bit SUB of 1 from 0x8000000000000000
SubOfOneFromMin ==
    /\ last.op = "sub"
    /\ last.sizeBytes = 8
    /\ last.before["rax"] = {63}
    /\ last.operand = {0}

\* C21: a 64-bit SUB of 1 from 0x8000000000000000 leaves 0x7FFFFFFFFFFFFFFF
\* in the destination with OF = 1, SF = 0, CF = 1 and ZF = 0
C21_SubOfOneFromMinBorrows ==
    SubOfOneFromMin =>
        /\ regs["rax"] = 0..62
        /\ flags.of = 1 /\ flags.sf = 0 /\ flags.zf = 0
        /\ flags.cf = 1

\* the last operation was an ADD, with a register or with a sign-extended
\* immediate as the second operand
AddRan == last.op = "add" \/ last.op = "addi"

\* the two operands of the last operation, masked to its width
MaskedDest == last.before["rax"] \cap BitMask(last.sizeBytes)
MaskedOperand == last.operand \cap BitMask(last.sizeBytes)

\* C22: after an ADD at any operand width, CF is 1 exactly when the unsigned
\* sum of the two width-masked operands exceeds the greatest value of the
\* width; and when the operands add up to 2^width (ADD a, -a with a # 0) the
\* destination is zero with ZF = 1 and CF = 1
C22_AddCarryIsUnsignedOverflow ==
    AddRan =>
        /\ (flags.cf = 1) = Less(BitMask(last.sizeBytes), Plus(MaskedDest, MaskedOperand))
        /\ (Plus(MaskedDest, MaskedOperand) = {last.sizeBytes * 8}) =>
               /\ readRegisterWide(regs["rax"], FALSE, last.sizeBytes) = {}
               /\ flags.zf = 1
               /\ flags.cf = 1

\* the signed number in the n bytes at address a (an immediate operand)
SignedAt(a, n) ==
    IF Rd(mem, a + n - 1) >= 128
    THEN (IF n = 4 THEN OutOfModel ELSE Val(MemRead(mem, a, n).bytes) - 256 ^ n)
    ELSE Val(MemRead(mem, a, n).bytes)

\* what the prefix loop decodes is a CMP: 38..3B, 3C, 3D, or 81 / 83 with
\* /reg = 7 (d.s.rip is the address after the opcode byte)
DecodesCmp(d) ==
    /\ d.s.exc = "none"
    /\ \/ d.opcode \in 56..61
       \/ d.opcode \in {129, 131} /\ ModRMOf(Rd(mem, d.s.rip)).reg = 7

\* the effective operand size of the CMP: a byte for 38, 3A and 3C
CmpSize(d) ==
    IF d.opcode \in {56, 58, 60} THEN 1 ELSE DefaultOperandSize(d.s, d.pfx)

\* the register the r/m field and the reg field of the ModRM byte name
RmView(d) ==
    RegView(ModRMOf(Rd(mem, d.s.rip)).rm + d.pfx.rex_b * 8, CmpSize(d),
            d.pfx.rexPrefix # 0)
RegFieldView(d) ==
    RegView(ModRMOf(Rd(mem, d.s.rip)).reg + d.pfx.rex_r * 8, CmpSize(d),
            d.pfx.rexPrefix # 0)

\* the first and the second operand of a CMP on registers and immediates
CmpDest(d) ==
    IF d.opcode \in {60, 61} THEN readRegister(d.s, "rax", CmpSize(d))
    ELSE IF d.opcode \in {58, 59} THEN readView(d.s, RegFieldView(d), CmpSize(d))
    ELSE readView(d.s, RmView(d), CmpSize(d))

CmpSource(d) ==
    IF d.opcode \in {60, 61}
    THEN SignedAt(d.s.rip, IF CmpSize(d) = 8 THEN 4 ELSE CmpSize(d))
    ELSE IF d.opcode = 131 THEN SignedAt(d.s.rip + 1, 1)
    ELSE IF d.opcode = 129
    THEN SignedAt(d.s.rip + 1, IF CmpSize(d) = 8 THEN 4 ELSE CmpSize(d))
    ELSE IF d.opcode \in {58, 59} THEN readView(d.s, RmView(d), CmpSize(d))
    ELSE readView(d.s, RegFieldView(d), CmpSize(d))

\* the flags SUB leaves for the operands of the CMP at its operand size
SubFlags(d) ==
    Arith(d.s.flags, Wide(CmpDest(d)), Wide(CmpSource(d)), CmpSize(d), "sub").flags

\* the operands of the CMP are registers and immediates
OnRegisters(d) ==
    d.opcode \in {60, 61} \/ ModRMOf(Rd(mem, d.s.rip)).mod = 3

\* a step that takes no interrupt runs the CMP that d decodes
CmpStep(d) ==
    /\ DecodesCmp(d)
    /\ interruptQueue = <<>>
    /\ ~halted
    /\ last'.op = "step"
    /\ last'.exc = "none"

\* C23: every form of CMP (38..3B, 3C/3D, 81 and 83 with /reg = 7) leaves
\* CF, ZF, SF and OF as SUB of the same operands at the same effective
\* operand size leaves them, and changes no register and no memory byte
C23_CmpIsSubWithoutStore ==
    [][CmpStep(PrefixLoop(Cur, NoPrefix)) =>
          /\ regs' = regs
          /\ mem' = mem
          /\ OnRegisters(PrefixLoop(Cur, NoPrefix)) =>
                 flags' = SubFlags(PrefixLoop(Cur, NoPrefix))]_vars

\* the last operation wrote a register view of 1, 2 or 4 bytes
SubViewWritten == last.op = "write" /\ last.sizeBytes \in {1, 2, 4}

\* the aliasing rule: the full register a view belongs to, and the bits of
\* that register the view covers. Index 4..7 at one byte without a REX prefix
\* names AH, CH, DH, BH, bits 15:8 of RAX, RCX, RDX, RBX
AliasedRegister ==
    IF last.sizeBytes = 1 /\ last.index \in 4..7 /\ ~last.rex
    THEN RegNames64[last.index - 3] ELSE RegNames64[last.index + 1]

AliasedBits ==
    IF last.sizeBytes = 1 /\ last.index \in 4..7 /\ ~last.rex THEN 8..15
    ELSE IF last.sizeBytes = 4 THEN 0..63
    ELSE 0..(last.sizeBytes * 8 - 1)

\* the bits the view holds after the write, counted from bit 0 of the view
ViewBits ==
    IF last.sizeBytes = 1 /\ last.index \in 4..7 /\ ~last.rex
    THEN {b - 8 : b \in regs[AliasedRegister] \cap (8..15)}
    ELSE regs[AliasedRegister] \cap (0..(last.sizeBytes * 8 - 1))

\* C24: a write to a register view changes the bits the aliasing rule names
\* and no other: a 1-byte or 2-byte write (AH, CH, DH, BH included) leaves
\* every other bit of the register unchanged, a 4-byte write leaves bits
\* 63:32 zero; the view then holds the value written, and no other register
\* changes
C24_SubViewWriteChangesItsBitsOnly ==
    SubViewWritten =>
        /\ \A r \in Range(RegNames64) \ {AliasedRegister} : regs[r] = last.before[r]
        /\ regs[AliasedRegister] \ AliasedBits = last.before[AliasedRegister] \ AliasedBits
        /\ ViewBits = last.operand \cap (0..(last.sizeBytes * 8 - 1))
        /\ last.sizeBytes = 4 => regs[AliasedRegister] \cap (32..63) = {}

\* a 4-byte write cleared bits 63:32 that were set, or a write to AH, CH, DH
\* or BH changed bits 15:8 of a register with other bits set
C24_Witness ==
    /\ SubViewWritten
    /\ \/ /\ last.sizeBytes = 4
          /\ last.before[AliasedRegister] \cap (32..63) # {}
          /\ regs[AliasedRegister] \cap (32..63) = {}
       \/ /\ last.high
          /\ last.before[AliasedRegister] \ (8..15) # {}
          /\ regs[AliasedRegister] # last.before[AliasedRegister]

\* C25: halted changes from true to false in one way only, in a step that
\* finds IF = 1 and a vector in the queue: the step takes the vector at the
\* head of the queue and clears halted before it delivers it, so that halted
\* is cleared whether the delivery then succeeds or fails; raise_interrupt
\* never changes halted, and a step that takes no vector from the queue
\* (IF = 0 or the queue empty) leaves a halted CPU halted
C25_OnlyDeliveryEndsHalt ==
    [][/\ (halted /\ ~halted') =>
              /\ last'.op = "step"
              /\ flags.if = 1
              /\ interruptQueue # <<>>
              /\ last'.irq = interruptQueue[1].vec
       /\ last'.op = "raise" => halted' = halted
       /\ (halted /\ last'.op = "step" /\ (flags.if = 0 \/ interruptQueue = <<>>))
              => halted']_vars

\* a halted CPU with IF = 1 was stepped with a vector in the queue, the
\* vector was delivered through its gate, and the CPU is no longer halted
C25_Witness ==
    /\ last.op = "step"
    /\ last.preHalted
    /\ last.preFlags.if = 1
    /\ last.preQueue # <<>>
    /\ last.irq = last.preQueue[1].vec
    /\ last.irqOk
    /\ ~halted

\* C25 as it is stated: halted only ever changes from false to true
C25_HaltedIsMonotonic == [][halted => halted']_vars

\* what the prefix loop decodes is FE or FF with a register operand (d.s.rip
\* is the address of the ModRM byte)
DecodesGroup(d) ==
    /\ d.s.exc = "none"
    /\ d.opcode \in {254, 255}
    /\ ModRMOf(Rd(mem, d.s.rip)).mod = 3

\* a step that takes no interrupt runs the FE or FF that d decodes
GroupStep(d) ==
    /\ DecodesGroup(d)
    /\ interruptQueue = <<>>
    /\ ~halted
    /\ last'.op = "step"

\* the operand of the instruction before and after the step, at the operand
\* size of the instruction (a byte for FE)
GroupOperand(d, s) ==
    readView(s, RegView(ModRMOf(Rd(mem, d.s.rip)).rm + d.pfx.rex_b * 8,
                        IF d.opcode = 254 THEN 1 ELSE DefaultOperandSize(d.s, d.pfx),
                        d.pfx.rexPrefix # 0),
             IF d.opcode = 254 THEN 1 ELSE DefaultOperandSize(d.s, d.pfx))

\* what /reg of the ModRM byte selects, with the instruction ending after
\* that one byte: INC, DEC, CALL, JMP, PUSH
GroupEffect(d, reg) ==
    /\ result' = "true"
    /\ reg = 0 => /\ rip' = d.s.rip + 1
                  /\ GroupOperand(d, [regs |-> regs']) = GroupOperand(d, d.s) + 1
    /\ reg = 1 => /\ rip' = d.s.rip + 1
                  /\ GroupOperand(d, [regs |-> regs']) = GroupOperand(d, d.s) - 1
    /\ reg = 2 => /\ rip' = GroupOperand(d, d.s)
                  /\ regs'["rsp"] = regs["rsp"] - 8
                  /\ Val(MemRead(mem', regs'["rsp"], 8).bytes) = d.s.rip + 1
    /\ reg = 4 => rip' = GroupOperand(d, d.s)
    /\ reg = 6 => /\ rip' = d.s.rip + 1
                  /\ regs'["rsp"] < regs["rsp"]
                  /\ Val(MemRead(mem', regs'["rsp"], 8).bytes) = GroupOperand(d, d.s)

\* C26: for the opcodes FE and FF the operation is the one /reg of the ModRM
\* byte selects (/0 INC, /1 DEC, /2 CALL r/m, /4 JMP r/m, /6 PUSH r/m), and
\* one ModRM byte is consumed whichever /reg it holds
C26_GroupSelectsByReg ==
    [][GroupStep(PrefixLoop(Cur, NoPrefix)) =>
          GroupEffect(PrefixLoop(Cur, NoPrefix),
                      ModRMOf(Rd(mem, PrefixLoop(Cur, NoPrefix).s.rip)).reg)]_vars

\* what the prefix loop decodes is 81 or 83 (d.s.rip is the address of the
\* ModRM byte)
DecodesGroup1(d) ==
    /\ d.s.exc = "none"
    /\ d.opcode \in {129, 131}

\* the r/m operand the ModRM byte at d.s.rip names, with its SIB byte and
\* its displacement
Group1Named(d) ==
    resolveModRMOperand(readInstructionByte(d.s).s, ModRMOf(Rd(mem, d.s.rip)),
                        DefaultOperandSize(d.s, d.pfx), d.pfx)

\* the immediate that follows the operand: one byte for 83, two or four
\* bytes for 81
Group1Follows(d) ==
    readSignedImmediate(Group1Named(d).s,
                        IF d.opcode = 131 THEN 1
                        ELSE IF DefaultOperandSize(d.s, d.pfx) = 2 THEN 2 ELSE 4)

\* a step that takes no interrupt runs the 81 or 83 that d decodes
Group1Step(d) ==
    /\ DecodesGroup1(d)
    /\ Group1Follows(d).s.exc = "none"
    /\ interruptQueue = <<>>
    /\ ~halted
    /\ last'.op = "step"

\* the operation /reg selects, on the destination and the immediate: ADD,
\* OR, ADC, SBB, AND, SUB, XOR, and CMP, which stores nothing
Group1Selected(reg, dest, imm, cf) ==
    IF reg = 0 THEN Plus(dest, imm)
    ELSE IF reg = 1 THEN dest \cup imm
    ELSE IF reg = 2 THEN Plus(Plus(dest, imm), Wide(cf))
    ELSE IF reg = 3 THEN Minus(Minus(dest, imm), Wide(cf))
    ELSE IF reg = 4 THEN dest \cap imm
    ELSE IF reg = 5 THEN Minus(dest, imm)
    ELSE IF reg = 6 THEN (dest \cup imm) \ (dest \cap imm)
    ELSE dest

\* the named operand in the registers and the memory of s
Group1Value(d, s) ==
    Wide(ReadOperand(s, Group1Named(d), DefaultOperandSize(d.s, d.pfx)).value)
        \cap BitMask(DefaultOperandSize(d.s, d.pfx))

\* the step ends after the immediate with the selected operation applied to
\* the named operand; CMP changes no register and no memory byte and sets
\* ZF when the operand equals the immediate
Group1Effect(d, reg) ==
    /\ last'.exc = "none"
    /\ rip' = Group1Follows(d).s.rip
    /\ Group1Value(d, [d.s EXCEPT !.regs = regs', !.mem = mem']) =
           Group1Selected(reg, Group1Value(d, d.s), Wide(Group1Follows(d).value),
                          flags.cf) \cap BitMask(DefaultOperandSize(d.s, d.pfx))
    /\ reg = 7 =>
           /\ regs' = regs
           /\ mem' = mem
           /\ (flags'.zf = 1) <=>
                  (Group1Value(d, d.s) =
                       Wide(Group1Follows(d).value)
                           \cap BitMask(DefaultOperandSize(d.s, d.pfx)))

\* C27: for the opcodes 81 and 83, /reg of the ModRM byte selects ADD, OR,
\* ADC, SBB, AND, SUB, XOR or CMP, applied at the effective operand size to
\* the r/m operand that byte names (with its SIB byte and displacement) and
\* the immediate that follows; one ModRM byte is consumed
C27_ImmediateGroupSelectsByReg ==
    [][Group1Step(PrefixLoop(Cur, NoPrefix)) =>
          Group1Effect(PrefixLoop(Cur, NoPrefix),
                       ModRMOf(Rd(mem, PrefixLoop(Cur, NoPrefix).s.rip)).reg)]_vars

\* the step delivers a vector from the queue and runs IRETQ as the first
\* instruction of its handler
ReturnsInDeliveringStep ==
    /\ last'.op = "step"
    /\ last'.irqOk
    /\ last'.opcode = 207
    /\ last'.exc = "none"
    /\ last'.fault = -1

\* the step before delivered a vector from the queue and ran one
\* instruction of the handler, and this step runs IRETQ with RSP at its
\* value on handler entry
ReturnsInNextStep ==
    /\ last.op = "step"
    /\ last.irqOk
    /\ last.exc = "none"
    /\ last.fault = -1
    /\ last.opcode # 207
    /\ regs["rsp"] = last.irqRsp
    /\ ~halted
    /\ ~TakesInterrupt(Cur)
    /\ last'.op = "step"
    /\ last'.opcode = 207
    /\ last'.exc = "none"
    /\ last'.fault = -1

\* RIP, RSP and the flags CF, ZF, SF, OF and IF after the step are the
\* given ones
RestoredTo(rip0, rsp0, flags0) ==
    /\ rip' = rip0
    /\ regs'["rsp"] = rsp0
    /\ \A f \in {"cf", "zf", "sf", "of", "if"} : flags'[f] = flags0[f]

\* C28: when the handler of a vector taken from the queue runs IRETQ with
\* RSP at its value on handler entry, RIP, RSP and the flags CF, ZF, SF, OF
\* and IF are again what they were just before the delivery
C28_IretqRestoresInterruptedState ==
    [][/\ ReturnsInDeliveringStep => RestoredTo(rip, regs["rsp"], flags)
       /\ ReturnsInNextStep => RestoredTo(last.preRip, last.preRsp, last.preFlags)]_vars

\* the identities of the raised vectors that wait in the queue
Queued == {interruptQueue[i].id : i \in DOMAIN interruptQueue}

\* C29: no raised interrupt is lost: every vector raised so far is still in
\* the queue or has been delivered, also after a step that failed while it
\* was delivering one
C29_NoRaisedInterruptIsLost ==
    \A id \in 1..raised : id \in Queued \/ id \in Range(delivered)

\* the step takes no interrupt from the queue, its instruction raises a
\* page fault, and the handler of vector 14 is entered
EntersPageFaultHandler ==
    /\ last'.op = "step"
    /\ last'.irq = -1
    /\ last'.fault # -1
    /\ last'.exc = "none"

\* the five slots of the #PF frame below the RSP of the faulting instruction
FrameBytes == (regs["rsp"] - 40)..(regs["rsp"] - 1)

\* C30: an instruction that raises a page fault has no effect of its own:
\* when the handler of vector 14 is entered, RSP is below its value before
\* the instruction by the pushed frame alone, every other register and the
\* flags hold their values from before the instruction, and memory differs
\* only in the frame
C30_FaultingInstructionHasNoEffect ==
    [][EntersPageFaultHandler =>
          /\ regs'["rsp"] = regs["rsp"] - 40
          /\ \A r \in Range(RegNames64) \ {"rsp"} : regs'[r] = regs[r]
          /\ flags' = flags
          /\ \A a \in (DOMAIN mem \cup DOMAIN mem') \ FrameBytes :
                 Rd(mem', a) = Rd(mem, a)]_vars

\* the CPU is halted and a step would take no vector from the queue: IF is
\* 0 or the queue is empty
StaysHalted == halted /\ ~TakesInterrupt(Cur)

DecodesPopRM(d) ==
    /\ d.s.exc = "none"
    /\ d.opcode = 143
    /\ ModRMOf(Rd(mem, d.s.rip)).reg = 0
    /\ ModRMOf(Rd(mem, d.s.rip)).mod = 3

\* a step that takes no interrupt runs the POP r/m that d decodes
PopRMStep(d) ==
    /\ DecodesPopRM(d)
    /\ interruptQueue = <<>>
    /\ ~halted
    /\ last'.op = "step"

\* the destination of the POP in the registers of s, at the operand size
PopRMDest(d, s) ==
    readView(s, RegView(ModRMOf(Rd(mem, d.s.rip)).rm + d.pfx.rex_b * 8,
                        DefaultOperandSize(d.s, d.pfx), d.pfx.rexPrefix # 0),
             DefaultOperandSize(d.s, d.pfx))

\* C32: POP r/m (8F /0) reads the value at [RSP], raises RSP by the slot
\* size and writes the value to the r/m operand: the step completes without
\* error and the destination holds the popped value
C32_PopRMStoresTheTopOfStack ==
    [][PopRMStep(PrefixLoop(Cur, NoPrefix)) =>
          /\ last'.exc = "none"
          /\ result' = "true"
          /\ regs'["rsp"] = regs["rsp"] + StackOperandSize(Cur, PrefixLoop(Cur, NoPrefix).pfx)
          /\ PopRMDest(PrefixLoop(Cur, NoPrefix), [regs |-> regs']) =
                 Val(MemRead(mem, regs["rsp"],
                             DefaultOperandSize(Cur, PrefixLoop(Cur, NoPrefix).pfx)).bytes)]_vars

\* what the prefix loop decodes is ADD r/m, r (01) or ADD r/m, imm8 (83 /0)
\* on dwords with the ModRM byte m of a memory operand (d.s.rip is the
\* address of the ModRM byte)
DecodesAddToMemory(d, m) ==
    /\ d.s.exc = "none"
    /\ d.s.mode = "long"
    /\ DefaultOperandSize(d.s, d.pfx) = 4
    /\ Rd(mem, d.s.rip) = m
    /\ \/ d.opcode = 1
       \/ d.opcode = 131 /\ ModRMOf(m).reg = 0

\* a step that takes no interrupt runs that ADD to its end
AddToMemoryStep(d, m) ==
    /\ DecodesAddToMemory(d, m)
    /\ interruptQueue = <<>>
    /\ ~halted
    /\ last'.op = "step"
    /\ last'.exc = "none"

\* the dword of memory m at address a
DwordAt(m, a) == Val(MemRead(m, a, 4).bytes)

\* the ADD stored its sum at address a: the dword there grew by the source
\* operand (the register /reg names, or the imm8 at address i), and no
\* byte outside it changed
AddedAt(d, a, i) ==
    /\ DwordAt(mem', a) =
           DwordAt(mem, a)
           + (IF d.opcode = 1
              THEN readRegister(d.s, getRegisterString(ModRMOf(Rd(mem, d.s.rip)).reg), 4)
              ELSE SignedAt(i, 1))
    /\ \A x \in (DOMAIN mem \cup DOMAIN mem') \ (a..(a + 3)) : Rd(mem', x) = Rd(mem, x)

\* C33: with mod = 00 and rm = 101 in 32/64-bit addressing the effective
\* address is RIP after the whole instruction (the displacement and a
\* trailing immediate consumed) plus the sign-extended disp32
C33_RipRelativeFromNextInstruction ==
    [][\A m \in {5, 29} :
          AddToMemoryStep(PrefixLoop(Cur, NoPrefix), m) =>
              AddedAt(PrefixLoop(Cur, NoPrefix),
                      rip' + SignedAt(PrefixLoop(Cur, NoPrefix).s.rip + 1, 4),
                      PrefixLoop(Cur, NoPrefix).s.rip + 5)]_vars

\* the ModRM byte m asks for a SIB byte with mod = 00, and the base bits of
\* the SIB byte that follows are 101
SibWithoutBase(d, m) ==
    /\ ModRMOf(m).mod = 0
    /\ ModRMOf(m).rm = 4
    /\ Rd(mem, d.s.rip + 1) % 8 = 5
    /\ d.pfx.rex_b = 0

\* what the index bits of the SIB byte b contribute: the index register
\* times the scale, nothing for 100
ScaledIndex(d, b) ==
    IF ((b \div 8) % 8) + d.pfx.rex_x * 8 = 4 THEN 0
    ELSE readRegister(d.s, getRegisterString(((b \div 8) % 8) + d.pfx.rex_x * 8), 8)
         * (2 ^ (b \div 64))

\* C34: for a SIB operand with mod = 00 and base bits 101 the base register
\* contributes nothing and the four displacement bytes after the SIB byte
\* are consumed and added to the address, so the next instruction starts
\* after that disp32 (and after the immediate of the instruction)
C34_SibWithoutBaseTakesDisp32 ==
    [][\A m \in {4, 28} :
          (AddToMemoryStep(PrefixLoop(Cur, NoPrefix), m)
           /\ SibWithoutBase(PrefixLoop(Cur, NoPrefix), m)) =>
              /\ rip' = PrefixLoop(Cur, NoPrefix).s.rip + 6
                        + (IF PrefixLoop(Cur, NoPrefix).opcode = 131 THEN 1 ELSE 0)
              /\ AddedAt(PrefixLoop(Cur, NoPrefix),
                         ScaledIndex(PrefixLoop(Cur, NoPrefix),
                                     Rd(mem, PrefixLoop(Cur, NoPrefix).s.rip + 1))
                         + SignedAt(PrefixLoop(Cur, NoPrefix).s.rip + 2, 4),
                         PrefixLoop(Cur, NoPrefix).s.rip + 6)]_vars

\* the displacement of the last branch, sign-extended from its width
SignExtended(bits, sizeBytes) ==
    bits \cup (IF (8 * sizeBytes - 1) \in bits
               THEN (8 * sizeBytes)..(WideBits - 1) ELSE {})

\* the address of the instruction after a branch at address a with
\* displacement bytes of the given number
NextInstruction(a, opcode, sizeBytes) ==
    Plus(a, Wide(sizeBytes + (IF opcode >= 3840 THEN 2 ELSE 1)))

\* C35: a taken Jcc rel8/rel32, JMP rel8 or CALL rel32 with displacement d
\* leaves RIP at the address of the next instruction plus d, for every d in
\* the signed range of the displacement width; a Jcc that is not taken
\* leaves RIP at the address of the next instruction
C35_BranchTargetIsNextPlusDisplacement ==
    [][last'.op = "branch" =>
          \A next \in {NextInstruction(rip, last'.index, last'.sizeBytes)} :
              rip' = IF BranchCondition(last'.index, flags)
                     THEN Plus(next, SignExtended(last'.operand, last'.sizeBytes))
                     ELSE next]_vars

\* the last operation was MOV r64, imm64
MovedImm64 == last.op = "mov" /\ last.sizeBytes = 8

\* C36: MOV r64, imm64 (REX.W with B8..BF) leaves the destination register
\* equal to the 64-bit little-endian immediate of the instruction, for every
\* immediate
C36_MovImm64LoadsTheImmediate ==
    MovedImm64 => regs[last.name] = last.operand

\* the operand size stated for a non-byte instruction decoded as d: in Long
\* mode 8 with REX.W, else 2 with 0x66, else 4; in every other mode 2, and
\* 4 with 0x66
StatedOperandSize(d) ==
    IF d.s.mode = "long"
    THEN (IF d.pfx.rex_w = 1 THEN 8 ELSE IF d.s.osz THEN 2 ELSE 4)
    ELSE (IF d.s.osz THEN 4 ELSE 2)

\* a step that takes no interrupt decodes ADD r/m, r (01) with the ModRM
\* byte 0xD8 (RAX += RBX) and runs it to its end
AddRegistersStep(d) ==
    /\ d.s.exc = "none"
    /\ d.opcode = 1
    /\ Rd(mem, d.s.rip) = 216
    /\ interruptQueue = <<>>
    /\ ~halted
    /\ last'.op = "step"
    /\ last'.exc = "none"

\* RAX after the sum of RAX and RBX is written to it at sizeBytes (the
\* registers hold less than 2^31 here)
SumWritten(sizeBytes) ==
    IF sizeBytes = 2
    THEN (regs["rax"] \div 65536) * 65536 + ((regs["rax"] + regs["rbx"]) % 65536)
    ELSE regs["rax"] + regs["rbx"]

\* C37: the effective operand size of a non-byte instruction is, in Long
\* mode, 8 with REX.W, else 2 with the 0x66 prefix, else 4, and in Real mode
\* and every Protected mode 2 by default and 4 with 0x66: ADD EAX, EBX adds
\* at that size
C37_OperandSizeFollowsModeAndPrefixes ==
    [][\A d \in {PrefixLoop(Cur, NoPrefix)} :
          AddRegistersStep(d) => regs'["rax"] = SumWritten(StatedOperandSize(d))]_vars

\* the step decodes ADC (/2) or SBB (/3) of the group 81/83
DecodesAdcSbb(d) ==
    /\ Group1Step(d)
    /\ ModRMOf(Rd(mem, d.s.rip)).reg \in {2, 3}

\* ADD (for ADC) or SUB (for SBB) of the destination and the immediate plus
\* the carry flag, at the effective operand size
WithCarry(d) ==
    Arith(flags, Group1Value(d, d.s),
          Plus(Wide(Group1Follows(d).value), Wide(flags.cf))
              \cap BitMask(DefaultOperandSize(d.s, d.pfx)),
          DefaultOperandSize(d.s, d.pfx),
          IF ModRMOf(Rd(mem, d.s.rip)).reg = 2 THEN "add" ELSE "sub")

\* C38: ADC and SBB of the immediate group (81/83 /2 and /3) complete
\* without error for either value of CF, store dest + imm + CF and
\* dest - imm - CF, and set the flags as ADD and SUB with imm + CF as the
\* second operand
C38_AdcSbbUseTheCarryFlag ==
    [][\A d \in {PrefixLoop(Cur, NoPrefix)} :
          DecodesAdcSbb(d) =>
              /\ last'.exc = "none"
              /\ \A r \in {WithCarry(d)} :
                    /\ Group1Value(d, [d.s EXCEPT !.regs = regs', !.mem = mem']) =
                           r.res \cap BitMask(DefaultOperandSize(d.s, d.pfx))
                    /\ \A f \in {"cf", "zf", "sf", "of"} : flags'[f] = r.flags[f]]_vars

\* EDX:EAX of the registers r: the low halves of RDX and RAX as one value
EdxEax(r) == {b + 32 : b \in r["rdx"] \cap BitMask(4)} \cup (r["rax"] \cap BitMask(4))

\* ECX, the low half of RCX, holds the address of EFER
EcxNamesEfer == regs["rcx"] \cap BitMask(4) = MSR_EFER

\* C39: WRMSR selects the MSR by ECX and for 0xC0000080 sets EFER to
\* EDX:EAX; the RDMSR that follows with the same ECX returns that value in
\* EDX:EAX
C39_WrmsrThenRdmsrReturnsTheValue ==
    /\ (last.op = "wrmsr" /\ EcxNamesEfer) => efer = EdxEax(regs)
    /\ (last.op = "rdmsr" /\ EcxNamesEfer) => EdxEax(regs) = EdxEax(last.before)

\* C40: every general-purpose register always holds an integer from 0 to
\* 2^64 - 1: no instruction (64-bit ADD, SUB, INC, a shift, MOV with an
\* immediate) leaves a register negative or wider than 64 bits
C40_RegistersStayWithin64Bits ==
    last.op # "init" => \A r \in DOMAIN regs : regs[r] \subseteq BitMask(8)

====
